---------------------------- MODULE Spec2Model ----------------------------
(***************************************************************************)
(* A model of the command-line wrapper interfaces of                       *)
(* nipype/interfaces/ants/segmentation.py, of Mideface in                  *)
(* nipype/interfaces/freesurfer/preprocess copy.py and of the FSL          *)
(* interfaces exercised by nipype/interfaces/fsl/tests/test_preprocess.py. *)
(*                                                                         *)
(* Under Spec one behaviour follows ONE interface instance: its input      *)
(* fields are assigned while it is at rest, and run() takes it through     *)
(* validation, compilation of the command line, execution of the external  *)
(* tool and resolution of the outputs.  Under SpecPar two instances run    *)
(* in two processes, each in its own working directory, on one filesystem. *)
(*                                                                         *)
(* Text that the code parses (file names, name templates, paths) is a      *)
(* sequence of atoms, e.g. <<"structural", ".nii">>, so that basename,     *)
(* split_filename, "%02d" substitution and glob are computed and not       *)
(* assumed.  A field holds <<>> when it is Undefined and <<v>> when it has *)
(* the value v.  Numbers are integers ("%g" and "%d" of an integer).       *)
(***************************************************************************)
EXTENDS Integers, Sequences, FiniteSets, TLC

VARIABLES
    iface,      \* the interface class of the instance
    inputs,     \* self.inputs: field name -> <<>> or <<value>>
    nset,       \* number of field assignments made so far
    pc,         \* state of the current invocation
    err,        \* the error surfaced by the current invocation, or "none"
    failedAt,   \* the state the invocation was in when it failed, or "none"
    cmdline,    \* the compiled command line of the invocation: <<>> or <<tokens>>
    outputs,    \* the resolved outputs of the invocation: <<>> or <<mapping>>
    fs,         \* the filesystem: absolute path -> content
    fs0,        \* the filesystem as it was when the invocation began
    spawned,    \* subprocesses spawned by the current invocation
    out_bias,   \* N4BiasFieldCorrection._out_bias_file: <<>> (None) or <<name>>
    os_env,     \* ANTSPATH in the process environment: <<>> or <<value>>
    which_ants, \* what which("antsRegistration") finds: <<>> or <<path>>
    rt_env,     \* ANTSPATH in runtime.environ, the subprocess environment
    stdout,     \* what the tool printed, as far as the code reads it
    runs,       \* invocations of run() that have ended on this instance
    assigned,   \* the fields assigned since construction, in the order of assignment
    par,        \* two invocations in processes of their own: process -> its state
    rejected    \* what the last assignment raised: "none" or "TraitError"

vars == <<iface, inputs, nset, pc, err, failedAt, cmdline, outputs, fs, fs0,
          spawned, out_bias, os_env, which_ants, rt_env, stdout, runs, assigned,
          par, rejected>>

-----------------------------------------------------------------------------
(* Bounds of the model *)

\* field assignments made on one instance after its construction
MaxAssign == 2
\* largest number_of_tissue_classes assigned
MaxClasses == 3
\* invocations of run() on one instance
MaxRuns == 1
\* volumes the fusion tool writes per name format
MaxVolumes == 2

-----------------------------------------------------------------------------
(* Undefined and defined values: traits' Undefined and isdefined() *)

Undef == <<>>
Def(v) == <<v>>
isdefined(x) == x # <<>>
Val(x) == x[1]

-----------------------------------------------------------------------------
(* Text as atoms *)

RECURSIVE Render(_)
\* the Python string an atom sequence stands for
Render(s) == IF s = <<>> THEN "" ELSE Head(s) \o Render(Tail(s))

RECURSIVE Join(_, _)
\* sep.join(strs) on rendered strings
Join(strs, sep) ==
    IF strs = <<>> THEN ""
    ELSE IF Len(strs) = 1 THEN strs[1]
    ELSE strs[1] \o sep \o Join(Tail(strs), sep)

\* "%d" % n for an integer n
Fmt_d(n) == ToString(n)

\* "%02d" % n for a natural number n
Fmt_02d(n) == IF n < 10 THEN "0" \o ToString(n) ELSE ToString(n)

\* "%g" % n for an integer n with fewer than seven digits
Fmt_g(n) == ToString(n)

IsFormatAtom(a) == a \in {"%02d", "%d"}

FormatCount(s) == Cardinality({i \in 1..Len(s) : IsFormatAtom(s[i])})

\* template % i, defined when the template has exactly one numeric
\* placeholder (Python raises TypeError otherwise)
Fill(t, i) ==
    [k \in 1..Len(t) |->
        IF t[k] = "%02d" THEN Fmt_02d(i)
        ELSE IF t[k] = "%d" THEN Fmt_d(i)
        ELSE t[k]]

\* "%02d" in s
Has02d(s) == \E k \in 1..Len(s) : s[k] = "%02d"

-----------------------------------------------------------------------------
(* Paths: os.path and nipype.utils.filemanip *)

\* os.getcwd()
Cwd == <<"/", "work">>

LastSlash(p) ==
    LET S == {k \in 1..Len(p) : p[k] = "/"}
    IN  IF S = {} THEN 0 ELSE CHOOSE k \in S : \A j \in S : j <= k

\* os.path.basename
basename(p) == SubSeq(p, LastSlash(p) + 1, Len(p))

\* os.path.dirname
dirname(p) ==
    LET k == LastSlash(p)
    IN  IF k = 0 THEN <<>> ELSE IF k = 1 THEN <<"/">> ELSE SubSeq(p, 1, k - 1)

isabs(p) == p # <<>> /\ p[1] = "/"

\* os.path.join(a, b)
join(a, b) ==
    IF isabs(b) THEN b
    ELSE IF a = <<>> THEN b
    ELSE IF a[Len(a)] = "/" THEN a \o b
    ELSE a \o <<"/">> \o b

\* os.path.abspath
abspath(p) == join(Cwd, p)

IsExtAtom(a) == a \in {".nii", ".gz", ".mat", ".csv", ".tar", ".mgz"}

\* split_filename: <<path, name, extension>>, ".nii.gz" and ".tar.gz" kept whole
split_filename(p) ==
    LET b == basename(p)
        n == Len(b)
        two == n >= 3 /\ b[n] = ".gz" /\ b[n - 1] \in {".nii", ".tar"}
        one == n >= 2 /\ IsExtAtom(b[n])
        cut == IF two THEN n - 2 ELSE IF one THEN n - 1 ELSE n
    IN  <<dirname(p), SubSeq(b, 1, cut), SubSeq(b, cut + 1, n)>>

\* fname_presuffix(fname, suffix=suffix): the suffix goes before the extension
fname_presuffix(p, suffix) ==
    LET s == split_filename(p)
    IN  join(s[1], s[2] \o <<suffix>> \o s[3])

-----------------------------------------------------------------------------
(* The filesystem: a set of [path, content] entries, one per existing path *)

exists(files, p) == \E e \in files : e.path = p

content(files, p) == (CHOOSE e \in files : e.path = p).content

\* the filesystem after `p` was written with content `c`
written(files, p, c) ==
    {e \in files : e.path # p} \cup {[path |-> p, content |-> c]}

\* os.path.exists of a path relative to the working directory
path_exists(files, p) == exists(files, abspath(p))

RECURSIVE GlobMatch(_, _)
\* fnmatch of the atom sequence `s` against `pat`, whose "*" atoms match
\* any run of atoms within one path component
GlobMatch(pat, s) ==
    IF pat = <<>> THEN s = <<>>
    ELSE IF Head(pat) = "*"
         THEN \E k \in 0..Len(s) :
                  /\ \A j \in 1..k : s[j] # "/"
                  /\ GlobMatch(Tail(pat), SubSeq(s, k + 1, Len(s)))
         ELSE s # <<>> /\ Head(s) = Head(pat) /\ GlobMatch(Tail(pat), Tail(s))

\* glob(pattern): the existing paths that match
glob(files, pat) == {e.path : e \in {x \in files : GlobMatch(pat, x.path)}}

\* name_format.replace("%d", "*")
ReplaceD(t) == [k \in 1..Len(t) |-> IF t[k] = "%d" THEN "*" ELSE t[k]]

-----------------------------------------------------------------------------
(* File names used as field values *)

F_structural == <<"structural", ".nii">>
F_T1 == <<"/", "data", "/", "T1", ".nii", ".gz">>
F_mask == <<"mask", ".nii">>
F_out == <<"out", ".nii">>
F_bias == <<"mybias", ".nii">>
F_template == <<"study_template", ".nii", ".gz">>
F_probmask == <<"ProbabilityMaskOfStudyTemplate", ".nii", ".gz">>
F_regtemplate == <<"brain_study_template", ".nii", ".gz">>
PriorPattern == <<"BrainSegmentationPrior", "%02d", ".nii", ".gz">>
PriorPlain == <<"segmentation0", ".nii", ".gz">>
PosteriorDefault == <<"POSTERIOR_", "%02d", ".nii", ".gz">>
PosteriorPlain == <<"posterior", ".nii", ".gz">>
F_wm == <<"white_matter", ".nii", ".gz">>
F_gm == <<"gray_matter", ".nii", ".gz">>
F_thickness == <<"output_thickness", ".nii", ".gz">>
F_foo == <<"/", "tmp", "/", "foo", ".nii">>
F_ref == <<"/", "tmp", "/", "ref", ".nii">>
F_newbar == <<"/", "newdata", "/", "bar", ".nii">>
F_missing == <<"foo", ".nii">>

\* the input images that the examples and tests take to be on disk; the
\* filesystem of the model holds the files that the wrappers look for or
\* write themselves
DataFiles == {F_structural, F_T1, F_mask, F_foo, F_ref}

-----------------------------------------------------------------------------
(* The parameter schemas: the InputSpec classes *)

Interfaces ==
    {"Atropos", "N4BiasFieldCorrection", "DenoiseImage", "Mideface",
     "JointFusion", "BrainExtraction", "CorticalThickness",
     "LaplacianThickness", "BET", "MCFLIRT", "ApplyXfm"}

\* the fields of each InputSpec that the model follows
Fields(c) ==
    CASE c = "Atropos" ->
            {"intensity_images", "mask_image", "initialization",
             "kmeans_init_centers", "prior_image", "number_of_tissue_classes",
             "prior_weighting", "prior_probability_threshold",
             "out_classified_image_name", "save_posteriors",
             "output_posteriors_name_template"}
      [] c = "N4BiasFieldCorrection" ->
            {"input_image", "output_image", "save_bias", "bias_image"}
      [] c = "DenoiseImage" ->
            {"input_image", "output_image", "save_noise", "noise_image"}
      [] c = "Mideface" ->
            {"input", "output", "odir", "force", "nii", "niigz", "mgz",
             "samesegfast", "nosamesegfast"}
      [] c = "JointFusion" ->
            {"target_image", "atlas_image", "atlas_segmentation_image",
             "out_label_fusion", "out_intensity_fusion_name_format",
             "out_label_post_prob_name_format",
             "out_atlas_voting_weight_name_format"}
      [] c = "BrainExtraction" ->
            {"anatomical_image", "brain_template", "brain_probability_mask",
             "out_prefix", "image_suffix", "keep_temporary_files", "environ"}
      [] c = "CorticalThickness" ->
            {"anatomical_image", "brain_template", "brain_probability_mask",
             "segmentation_priors", "t1_registration_template",
             "out_prefix", "image_suffix"}
      [] c = "LaplacianThickness" ->
            {"input_wm", "input_gm", "output_image", "smooth_param",
             "prior_thickness", "dT", "sulcus_prior", "tolerance"}
      [] c \in {"BET", "MCFLIRT"} -> {"in_file", "out_file"}
      [] c = "ApplyXfm" ->
            {"in_file", "reference", "in_matrix_file", "out_file", "apply_xfm"}

\* Mandatory with Atropos' mask_image no longer declared mandatory
Mandatory_without_mask(c) ==
    CASE c = "Atropos" ->
            {"intensity_images", "initialization", "number_of_tissue_classes"}
      [] c = "N4BiasFieldCorrection" -> {"input_image", "save_bias"}
      [] c = "DenoiseImage" -> {"input_image", "save_noise"}
      [] c = "Mideface" -> {}
      [] c = "JointFusion" ->
            {"target_image", "atlas_image", "atlas_segmentation_image"}
      [] c = "BrainExtraction" ->
            {"anatomical_image", "brain_template", "brain_probability_mask"}
      [] c = "CorticalThickness" ->
            {"anatomical_image", "brain_template", "brain_probability_mask",
             "segmentation_priors", "t1_registration_template"}
      [] c = "LaplacianThickness" -> {"input_wm", "input_gm"}
      [] c \in {"BET", "MCFLIRT"} -> {"in_file"}
      [] c = "ApplyXfm" -> {"in_file", "reference"}

\* mandatory=True
Mandatory(c) ==
    CASE c = "Atropos" ->
            {"intensity_images", "mask_image", "initialization",
             "number_of_tissue_classes"}
      [] c = "N4BiasFieldCorrection" -> {"input_image", "save_bias"}
      [] c = "DenoiseImage" -> {"input_image", "save_noise"}
      [] c = "Mideface" -> {}
      [] c = "JointFusion" ->
            {"target_image", "atlas_image", "atlas_segmentation_image"}
      [] c = "BrainExtraction" ->
            {"anatomical_image", "brain_template", "brain_probability_mask"}
      [] c = "CorticalThickness" ->
            {"anatomical_image", "brain_template", "brain_probability_mask",
             "segmentation_priors", "t1_registration_template"}
      [] c = "LaplacianThickness" -> {"input_wm", "input_gm"}
      [] c \in {"BET", "MCFLIRT"} -> {"in_file"}
      [] c = "ApplyXfm" -> {"in_file", "reference"}

\* Xor without the declaration on N4BiasFieldCorrection's save_bias
Xor_without_save_bias(c, f) ==
    CASE c = "DenoiseImage" /\ f = "save_noise" -> {"noise_image"}
      [] c = "Mideface" /\ f = "samesegfast" -> {"nosamesegfast"}
      [] c = "Mideface" /\ f = "nosamesegfast" -> {"samesegfast"}
      [] c = "Mideface" /\ f = "nii" -> {"output", "niigz", "mgz"}
      [] c = "Mideface" /\ f = "niigz" -> {"output", "nii", "mgz"}
      [] c = "Mideface" /\ f = "mgz" -> {"output", "nii", "niigz"}
      [] OTHER -> {}

\* xor=[...]: the fields a field declares itself mutually exclusive with
Xor(c, f) ==
    CASE c = "N4BiasFieldCorrection" /\ f = "save_bias" -> {"bias_image"}
      [] c = "DenoiseImage" /\ f = "save_noise" -> {"noise_image"}
      [] c = "Mideface" /\ f = "samesegfast" -> {"nosamesegfast"}
      [] c = "Mideface" /\ f = "nosamesegfast" -> {"samesegfast"}
      [] c = "Mideface" /\ f = "nii" -> {"output", "niigz", "mgz"}
      [] c = "Mideface" /\ f = "niigz" -> {"output", "nii", "mgz"}
      [] c = "Mideface" /\ f = "mgz" -> {"output", "nii", "niigz"}
      [] OTHER -> {}

\* Requires without the declaration on Mideface's force
Requires_without_force(c, f) ==
    CASE c = "Atropos" /\ f = "initialization" -> {"number_of_tissue_classes"}
      [] c = "Atropos" /\ f = "prior_probability_threshold" -> {"prior_weighting"}
      [] c = "ApplyXfm" /\ f = "apply_xfm" -> {"in_matrix_file"}
      [] OTHER -> {}

\* requires=[...]: the companion fields a field needs
Requires(c, f) ==
    CASE c = "Atropos" /\ f = "initialization" -> {"number_of_tissue_classes"}
      [] c = "Atropos" /\ f = "prior_probability_threshold" -> {"prior_weighting"}
      [] c = "Mideface" /\ f = "force" -> {"odir"}
      [] c = "LaplacianThickness" /\ f = "prior_thickness" -> {"smooth_param"}
      [] c = "LaplacianThickness" /\ f = "dT" -> {"prior_thickness"}
      [] c = "LaplacianThickness" /\ f = "sulcus_prior" -> {"dT"}
      [] c = "LaplacianThickness" /\ f = "tolerance" -> {"sulcus_prior"}
      [] c = "ApplyXfm" /\ f = "apply_xfm" -> {"in_matrix_file"}
      [] c = "JointFusion" /\ f = "out_label_post_prob_name_format" ->
            {"out_label_fusion", "out_intensity_fusion_name_format"}
      [] c = "JointFusion" /\ f = "out_atlas_voting_weight_name_format" ->
            {"out_label_fusion", "out_intensity_fusion_name_format",
             "out_label_post_prob_name_format"}
      [] OTHER -> {}

\* the interfaces whose arguments have a position= each; the model follows
\* the order of assignment for these
Positional == {"LaplacianThickness"}

\* no field declared File(exists=True)
ExistingFileFields_none(c) == {}

\* declared File(exists=True), among the fields the model gives a path
\* that may be missing
ExistingFileFields(c) ==
    CASE c = "Atropos" -> {"mask_image"}
      [] c \in {"BET", "MCFLIRT"} -> {"in_file"}
      [] c = "ApplyXfm" -> {"in_file", "reference", "in_matrix_file"}
      [] OTHER -> {}

\* the boolean fields (traits.Bool)
BoolFields ==
    {"save_posteriors", "save_bias", "save_noise", "force", "nii", "niigz",
     "mgz", "samesegfast", "nosamesegfast", "apply_xfm"}

\* the value a field has on a new instance: its default with usedefault=True,
\* Undefined otherwise
Default(c, f) ==
    CASE c = "Atropos" /\ f = "output_posteriors_name_template" ->
            Def(PosteriorDefault)
      [] c = "N4BiasFieldCorrection" /\ f = "save_bias" -> Def(FALSE)
      [] c = "DenoiseImage" /\ f = "save_noise" -> Def(FALSE)
      [] c = "BrainExtraction" /\ f = "out_prefix" -> Def(<<"highres001_">>)
      [] c = "CorticalThickness" /\ f = "out_prefix" -> Def(<<"antsCT_">>)
      [] c \in {"BrainExtraction", "CorticalThickness"} /\ f = "image_suffix" ->
            Def(<<"nii.gz">>)
      [] OTHER -> Undef

\* X(): the inputs of a new instance
NewInputs(c) == [f \in Fields(c) |-> Default(c, f)]

-----------------------------------------------------------------------------
(* Validation: the checks run() makes before the command line is compiled *)

\* a field is set when it holds a value other than the one a new instance
\* has for it
Active(c, inp, f) == isdefined(inp[f]) /\ inp[f] # Default(c, f)

MissingMandatory(c, inp) == \E f \in Mandatory(c) : ~isdefined(inp[f])

MutuallyExclusiveViolation(c, inp) ==
    \E f \in Fields(c) : \E g \in Xor(c, f) : Active(c, inp, f) /\ Active(c, inp, g)

MissingCoRequirement(c, inp) ==
    \E f \in Fields(c) : \E g \in Requires(c, f) :
        isdefined(inp[f]) /\ ~isdefined(inp[g])

\* the trait of field f refuses the value v: the field wants an existing
\* file and v names none
TraitError(c, files, f, v) ==
    /\ f \in ExistingFileFields(c)
    /\ isdefined(v)
    /\ Val(v) \notin DataFiles
    /\ ~path_exists(files, Val(v))

\* validate(instance): "ok" or the ErrorKind
validate(c, inp) ==
    IF MissingMandatory(c, inp) THEN "MissingMandatory"
    ELSE IF MutuallyExclusiveViolation(c, inp) THEN "MutuallyExclusiveViolation"
    ELSE IF MissingCoRequirement(c, inp) THEN "MissingCoRequirement"
    ELSE "ok"

-----------------------------------------------------------------------------
(* What compiling or resolving returns: a value, or the exception raised *)

Ok(v) == [ok |-> TRUE, val |-> v, err |-> "none"]
Raise(e) == [ok |-> FALSE, val |-> <<>>, err |-> e]

\* the defined tokens of `args` (an Undefined argument is not rendered)
Tokens(args) ==
    LET F[k \in 0..Len(args)] ==
            IF k = 0 THEN <<>>
            ELSE IF isdefined(args[k]) THEN Append(F[k - 1], Val(args[k]))
            ELSE F[k - 1]
    IN  F[Len(args)]

\* argstr % value for a field that is rendered only when it is defined
Arg(flag, x) == IF isdefined(x) THEN Def(flag \o Render(Val(x))) ELSE Undef

\* argstr of a traits.Bool: rendered only when the field is True
FlagArg(flag, x) == IF isdefined(x) /\ Val(x) = TRUE THEN Def(flag) ELSE Undef

-----------------------------------------------------------------------------
(* Atropos *)

RECURSIVE SortedSet(_)
\* sorted(S) of a set of integers
SortedSet(S) ==
    IF S = {} THEN <<>>
    ELSE LET m == CHOOSE x \in S : \A y \in S : x <= y
         IN  <<m>> \o SortedSet(S \ {m})

\* set(list)
ToSet(l) == {l[k] : k \in 1..Len(l)}

\* Atropos_centers with the list taken as it was given
Atropos_centers_as_given(inp) == Val(inp["kmeans_init_centers"])

\* centers = sorted(set(self.inputs.kmeans_init_centers))
Atropos_centers(inp) == SortedSet(ToSet(Val(inp["kmeans_init_centers"])))

\* Atropos_centers_match with the centers counted as they were given
Atropos_centers_match_given(inp) ==
    Len(Val(inp["kmeans_init_centers"])) = Val(inp["number_of_tissue_classes"])

\* len(centers) != n_classes does not hold
Atropos_centers_match(inp) ==
    Len(Atropos_centers(inp)) = Val(inp["number_of_tissue_classes"])

\* the existence check looking at the first prior image only
Atropos_priors_paths_first(inp) ==
    <<Fill(Val(inp["prior_image"]), 1)>>

\* the prior images whose existence _format_arg checks
Atropos_priors_paths(inp) ==
    LET prior == Val(inp["prior_image"])
        n_classes == Val(inp["number_of_tissue_classes"])
    IN  IF Has02d(prior) THEN [i \in 1..n_classes |-> Fill(prior, i)]
        ELSE <<prior>>

\* _format_arg appending prior_probability_threshold for either prior-based
\* initialization
Atropos_format_initialization_threshold_always(inp, files) ==
    LET val == Val(inp["initialization"])
        n_classes == Val(inp["number_of_tissue_classes"])
        kmeans == val = "KMeans" /\ isdefined(inp["kmeans_init_centers"])
        usesPrior == val \in {"PriorProbabilityImages", "PriorLabelImage"}
        b1 == <<Fmt_d(n_classes)>>
        b2 == IF kmeans
              THEN b1 \o [k \in 1..Len(Atropos_centers(inp)) |->
                              Fmt_g(Atropos_centers(inp)[k])]
              ELSE b1
        b3 == IF usesPrior
              THEN b2 \o <<Render(Val(inp["prior_image"])),
                           Fmt_g(Val(inp["prior_weighting"]))>>
              ELSE b2
        b4 == IF usesPrior /\ isdefined(inp["prior_probability_threshold"])
              THEN Append(b3, Fmt_g(Val(inp["prior_probability_threshold"])))
              ELSE b3
    IN  IF kmeans /\ ~Atropos_centers_match(inp)
        THEN Raise("ValueError: number of centers")
        ELSE IF usesPrior /\ (~isdefined(inp["prior_image"])
                              \/ ~isdefined(inp["prior_weighting"]))
        THEN Raise("ValueError: prior_image and prior_weighting")
        ELSE IF usesPrior /\ Has02d(Val(inp["prior_image"]))
                /\ val = "PriorLabelImage"
        THEN Raise("ValueError: patterns for prior_image")
        ELSE IF usesPrior
                /\ \E k \in 1..Len(Atropos_priors_paths(inp)) :
                       ~path_exists(files, Atropos_priors_paths(inp)[k])
        THEN Raise("FileNotFoundError")
        ELSE Ok("--initialization " \o val \o "[" \o Join(b4, ",") \o "]")

\* Atropos._format_arg(opt="initialization")
Atropos_format_initialization(inp, files) ==
    LET val == Val(inp["initialization"])
        n_classes == Val(inp["number_of_tissue_classes"])
        kmeans == val = "KMeans" /\ isdefined(inp["kmeans_init_centers"])
        usesPrior == val \in {"PriorProbabilityImages", "PriorLabelImage"}
        b1 == <<Fmt_d(n_classes)>>
        b2 == IF kmeans
              THEN b1 \o [k \in 1..Len(Atropos_centers(inp)) |->
                              Fmt_g(Atropos_centers(inp)[k])]
              ELSE b1
        b3 == IF usesPrior
              THEN b2 \o <<Render(Val(inp["prior_image"])),
                           Fmt_g(Val(inp["prior_weighting"]))>>
              ELSE b2
        b4 == IF val = "PriorProbabilityImages"
                 /\ isdefined(inp["prior_probability_threshold"])
              THEN Append(b3, Fmt_g(Val(inp["prior_probability_threshold"])))
              ELSE b3
    IN  IF kmeans /\ ~Atropos_centers_match(inp)
        THEN Raise("ValueError: number of centers")
        ELSE IF usesPrior /\ (~isdefined(inp["prior_image"])
                              \/ ~isdefined(inp["prior_weighting"]))
        THEN Raise("ValueError: prior_image and prior_weighting")
        ELSE IF usesPrior /\ Has02d(Val(inp["prior_image"]))
                /\ val = "PriorLabelImage"
        THEN Raise("ValueError: patterns for prior_image")
        ELSE IF usesPrior
                /\ \E k \in 1..Len(Atropos_priors_paths(inp)) :
                       ~path_exists(files, Atropos_priors_paths(inp)[k])
        THEN Raise("FileNotFoundError")
        ELSE Ok("--initialization " \o val \o "[" \o Join(b4, ",") \o "]")

\* the text of the exceptions Atropos._format_arg raises, as the literal it
\* is built from and the values formatted into it
Atropos_message(inp, e) ==
    CASE e = "ValueError: number of centers" ->
            <<"KMeans initialization with initial cluster centers requires ",
              "the number of centers to match ", "number_of_tissue_classes">>
      [] e = "ValueError: prior_image and prior_weighting" ->
            <<"'", Val(inp["initialization"]), "' initialization requires setting ",
              "prior_image", " and ", "prior_weighting">>
      [] e = "ValueError: patterns for prior_image" ->
            <<"'PriorLabelImage' initialization does not ",
              "accept patterns for ", "prior_image", ".">>
      [] e = "FileNotFoundError" ->
            <<"One or more prior images do not exist: ",
              Join([k \in 1..Len(Atropos_priors_paths(inp)) |->
                       Render(Atropos_priors_paths(inp)[k])], ", "),
              ".">>

\* _gen_filename keeping the directory of the intensity image
Atropos_gen_filename_keeps_path(inp) ==
    IF isdefined(inp["out_classified_image_name"])
    THEN Val(inp["out_classified_image_name"])
    ELSE fname_presuffix(Val(inp["intensity_images"])[1], "_labeled")

\* Atropos._gen_filename("out_classified_image_name")
Atropos_gen_filename(inp) ==
    IF isdefined(inp["out_classified_image_name"])
    THEN Val(inp["out_classified_image_name"])
    ELSE LET s == split_filename(Val(inp["intensity_images"])[1])
         IN  s[2] \o <<"_labeled">> \o s[3]

\* Atropos._format_arg(opt="out_classified_image_name")
Atropos_format_output(inp) ==
    "--output [" \o Render(Atropos_gen_filename(inp))
        \o (IF isdefined(inp["save_posteriors"])
            THEN "," \o (IF isdefined(inp["output_posteriors_name_template"])
                         THEN Render(Val(inp["output_posteriors_name_template"]))
                         ELSE "<undefined>")
            ELSE "")
        \o "]"

\* argstr="--intensity-image %s..."
Atropos_format_intensity(inp) ==
    LET imgs == Val(inp["intensity_images"])
    IN  Join([k \in 1..Len(imgs) |-> "--intensity-image " \o Render(imgs[k])], " ")

\* Atropos.cmdline: the arguments in the order the docstring examples show
Atropos_cmdline(inp, files) ==
    LET init == Atropos_format_initialization(inp, files)
    IN  IF ~init.ok THEN init
        ELSE Ok(<<"Atropos", "--image-dimensionality 3", init.val,
                  Atropos_format_intensity(inp),
                  "--mask-image " \o Render(Val(inp["mask_image"])),
                  Atropos_format_output(inp),
                  "--use-random-seed 1">>)

\* Atropos_posteriors with the template filled with i instead of i + 1
Atropos_posteriors_from_zero(inp) ==
    [i \in 1..Val(inp["number_of_tissue_classes"]) |->
        abspath(Fill(Val(inp["output_posteriors_name_template"]), i - 1))]

\* the posteriors that _list_outputs enumerates
Atropos_posteriors(inp) ==
    [i \in 1..Val(inp["number_of_tissue_classes"]) |->
        abspath(Fill(Val(inp["output_posteriors_name_template"]), i))]

\* Atropos._list_outputs
Atropos_list_outputs(inp) ==
    LET wanted == isdefined(inp["save_posteriors"]) /\ Val(inp["save_posteriors"])
        tmpl == inp["output_posteriors_name_template"]
    IN  IF wanted /\ Val(inp["number_of_tissue_classes"]) >= 1
           /\ (~isdefined(tmpl) \/ FormatCount(Val(tmpl)) # 1)
        THEN Raise("TypeError")
        ELSE Ok([classified_image |-> Def(abspath(Atropos_gen_filename(inp))),
                 posteriors |-> IF wanted THEN Def(Atropos_posteriors(inp))
                                ELSE Undef])

-----------------------------------------------------------------------------
(* Output names derived from a source field (name_source, name_template,   *)
(* keep_extension=True)                                                    *)

\* _filename_from_source: the explicit value, or the source's base name,
\* the template's suffix and the source's extension
FilenameFromSource(inp, field, source, suffix) ==
    IF isdefined(inp[field]) THEN Val(inp[field])
    ELSE LET s == split_filename(Val(inp[source]))
         IN  s[2] \o <<suffix>> \o s[3]

-----------------------------------------------------------------------------
(* LaplacianThickness *)

\* the fields in the order of their position= metadata, 1 to 8
LT_positions ==
    <<"input_wm", "input_gm", "output_image", "smooth_param",
      "prior_thickness", "dT", "sulcus_prior", "tolerance">>

\* "%s" % x for a float x that holds the whole number n
Fmt_s_float(n) == ToString(n) \o ".0"

\* output_image: name_source input_wm, name_template "%s_thickness",
\* keep_extension
LT_output_image(inp) ==
    FilenameFromSource(inp, "output_image", "input_wm", "_thickness")

\* argstr "%s" of one field: its token, or Undefined when the field is
LT_format_arg(inp, f) ==
    IF f = "output_image"
    THEN IF isdefined(inp["output_image"]) \/ isdefined(inp["input_wm"])
         THEN Def(Render(LT_output_image(inp)))
         ELSE Undef
    ELSE IF ~isdefined(inp[f]) THEN Undef
    ELSE IF f \in {"input_wm", "input_gm"} THEN Def(Render(Val(inp[f])))
    ELSE Def(Fmt_s_float(Val(inp[f])))

\* the fields of `order`, then the other fields by position
LT_assignment_order(order) ==
    order \o SelectSeq(LT_positions,
                       LAMBDA f : \A k \in 1..Len(order) : order[k] # f)

\* the command line with the tokens in the order of assignment
LT_cmdline_as_assigned(inp, order) ==
    Ok(<<"LaplacianThickness">>
         \o Tokens([k \in 1..Len(LT_positions) |->
                       LT_format_arg(inp, LT_assignment_order(order)[k])]))

\* LaplacianThickness.cmdline: the tokens of the fields by position,
\* whatever the order in which the fields were assigned
LT_cmdline(inp, order) ==
    Ok(<<"LaplacianThickness">>
         \o Tokens([k \in 1..Len(LT_positions) |->
                       LT_format_arg(inp, LT_positions[k])]))

\* the output named from its source
LT_list_outputs(inp) ==
    Ok([output_image |-> Def(abspath(LT_output_image(inp)))])

-----------------------------------------------------------------------------
(* BET, MCFLIRT and ApplyXfm of nipype.interfaces.fsl, as far as            *)
(* fsl/tests/test_preprocess.py shows them                                 *)

\* the suffix of the generated output name
FSL_suffix(c) ==
    CASE c = "BET" -> "_brain"
      [] c = "MCFLIRT" -> "_mcf"
      [] c = "ApplyXfm" -> "_flirt"

\* out_file as compiled: the explicit value, or in the working directory
\* the base name of in_file, the suffix and the extension
FSL_out_file(c, inp) ==
    IF isdefined(inp["out_file"]) THEN Val(inp["out_file"])
    ELSE LET s == split_filename(Val(inp["in_file"]))
         IN  join(Cwd, s[2] \o <<FSL_suffix(c)>> \o s[3])

\* the generated -omat of flirt: the output name with ".mat" for extension
FSL_out_matrix(inp) ==
    join(Cwd, split_filename(Val(inp["in_file"]))[2] \o <<"_flirt", ".mat">>)

\* cmdline, as the tests spell it
FSL_cmdline(c, inp) ==
    CASE c = "BET" ->
            Ok(<<"bet", Render(Val(inp["in_file"])), Render(FSL_out_file(c, inp))>>)
      [] c = "MCFLIRT" ->
            Ok(<<"mcflirt", "-in " \o Render(Val(inp["in_file"])),
                 "-out " \o Render(FSL_out_file(c, inp))>>)
      [] c = "ApplyXfm" ->
            Ok(<<"flirt", "-in " \o Render(Val(inp["in_file"])),
                 "-ref " \o Render(Val(inp["reference"])),
                 "-out " \o Render(FSL_out_file(c, inp)),
                 "-omat " \o Render(FSL_out_matrix(inp))>>
               \o Tokens(<<FlagArg("-applyxfm", inp["apply_xfm"]),
                           Arg("-init ", inp["in_matrix_file"])>>))

\* _list_outputs: out_file as it was compiled
FSL_list_outputs(c, inp) ==
    Ok([out_file |-> Def(FSL_out_file(c, inp))])

-----------------------------------------------------------------------------
(* N4BiasFieldCorrection *)

\* _parse_inputs without os.path.basename around the input image
N4_parse_inputs_keeps_directory(inp, old) ==
    IF (isdefined(inp["save_bias"]) => Val(inp["save_bias"]))
       \/ isdefined(inp["bias_image"])
    THEN IF isdefined(inp["bias_image"]) THEN inp["bias_image"]
         ELSE Def(fname_presuffix(Val(inp["input_image"]), "_bias"))
    ELSE Undef

\* _parse_inputs without the reset of line 530
N4_parse_inputs_no_reset(inp, old) ==
    IF (isdefined(inp["save_bias"]) => Val(inp["save_bias"]))
       \/ isdefined(inp["bias_image"])
    THEN IF isdefined(inp["bias_image"]) THEN inp["bias_image"]
         ELSE Def(fname_presuffix(basename(Val(inp["input_image"])), "_bias"))
    ELSE old

\* _parse_inputs: self._out_bias_file after lines 530-537; `old` is what
\* it held before the call
N4_parse_inputs(inp, old) ==
    IF (isdefined(inp["save_bias"]) => Val(inp["save_bias"]))
       \/ isdefined(inp["bias_image"])
    THEN IF isdefined(inp["bias_image"]) THEN inp["bias_image"]
         ELSE Def(fname_presuffix(basename(Val(inp["input_image"])), "_bias"))
    ELSE Undef

\* output_image as handed to _format_arg
N4_output_image(inp) ==
    FilenameFromSource(inp, "output_image", "input_image", "_corrected")

\* N4BiasFieldCorrection._format_arg(name="output_image"); `ob` is
\* self._out_bias_file
N4_format_output(inp, ob) ==
    IF isdefined(ob)
    THEN "--output [ " \o Render(N4_output_image(inp)) \o ", "
             \o Render(Val(ob)) \o " ]"
    ELSE "--output " \o Render(N4_output_image(inp))

\* N4BiasFieldCorrection.cmdline after _parse_inputs left `ob` in
\* self._out_bias_file
N4_cmdline(inp, ob) ==
    Ok(<<"N4BiasFieldCorrection", "-d 3",
         "--input-image " \o Render(Val(inp["input_image"])),
         N4_format_output(inp, ob)>>)

\* N4BiasFieldCorrection._list_outputs
N4_list_outputs(inp, ob) ==
    Ok([output_image |-> Def(abspath(N4_output_image(inp))),
        bias_image |-> IF isdefined(ob) THEN Def(abspath(Val(ob))) ELSE Undef])

-----------------------------------------------------------------------------
(* DenoiseImage *)

Denoise_output_image(inp) ==
    FilenameFromSource(inp, "output_image", "input_image", "_noise_corrected")

Denoise_noise_image(inp) ==
    FilenameFromSource(inp, "noise_image", "input_image", "_noise")

\* DenoiseImage._format_arg(name="output_image")
Denoise_format_output(inp) ==
    IF Val(inp["save_noise"]) \/ isdefined(inp["noise_image"])
    THEN "-o [ " \o Render(Denoise_output_image(inp)) \o ", "
             \o Render(Denoise_noise_image(inp)) \o " ]"
    ELSE "-o " \o Render(Denoise_output_image(inp))

\* DenoiseImage.cmdline, as in the docstring examples
Denoise_cmdline(inp) ==
    Ok(<<"DenoiseImage", "-i " \o Render(Val(inp["input_image"])),
         "-n Gaussian", Denoise_format_output(inp), "-s 1">>)

\* the outputs named from their source
Denoise_list_outputs(inp) ==
    Ok([output_image |-> Def(abspath(Denoise_output_image(inp))),
        noise_image |-> Def(abspath(Denoise_noise_image(inp)))])

-----------------------------------------------------------------------------
(* Mideface *)

\* Mideface.cmdline: the declared argstr of every field that is set
Mideface_cmdline(inp) ==
    Ok(<<"mideface">> \o
       Tokens(<<FlagArg("--force", inp["force"]),
                Arg("--i ", inp["input"]),
                FlagArg("--nii.gz", inp["mgz"]),
                FlagArg("--nii", inp["nii"]),
                FlagArg("--nii.gz", inp["niigz"]),
                FlagArg("--samseg-fast", inp["nosamesegfast"]),
                Arg("--odir ", inp["odir"]),
                Arg("--o ", inp["output"]),
                FlagArg("--samseg-fast", inp["samesegfast"])>>))

\* the fields MidefaceInputSpec declares, and the one _list_outputs reads
Mideface_declares(f) == f \in Fields("Mideface")

\* Mideface._list_outputs: reading an input the spec does not declare raises
Mideface_list_outputs(inp) ==
    IF ~Mideface_declares("dicom_info_file") THEN Raise("AttributeError")
    ELSE Ok([outfile |-> Undef])

-----------------------------------------------------------------------------
(* JointFusion *)

\* "-g [{0}]".format(", ".join("'%s'" % fn for fn in ai)) for each image set
JF_format_sets(flag, sets) ==
    Join([k \in 1..Len(sets) |->
            flag \o " [" \o
            Join([j \in 1..Len(sets[k]) |-> "'" \o Render(sets[k][j]) \o "'"], ", ")
            \o "]"], " ")

\* _format_arg without the comparison of the two lengths
JF_format_segmentations_unchecked(inp) ==
    LET val == Val(inp["atlas_segmentation_image"])
    IN  Ok(Join([k \in 1..Len(val) |-> "-l " \o Render(val[k])], " "))

\* JointFusion._format_arg(opt="atlas_segmentation_image")
JF_format_segmentations(inp) ==
    LET val == Val(inp["atlas_segmentation_image"])
    IN  IF Len(val) # Len(Val(inp["atlas_image"]))
        THEN Raise("ValueError: number of segmentations")
        ELSE Ok(Join([k \in 1..Len(val) |-> "-l " \o Render(val[k])], " "))

\* the text of the ValueError of JointFusion._format_arg
JF_message(inp) ==
    <<"Number of specified segmentations should be identical to the number ",
      "of atlas image sets ",
      Fmt_d(Len(Val(inp["atlas_segmentation_image"]))), "!=",
      Fmt_d(Len(Val(inp["atlas_image"])))>>

\* the name formats that follow out_label_fusion in its -o option: the
\* loop of lines 1497-1505 stops at the first one that is not defined
JF_output_args(inp) ==
    LET opts == <<inp["out_intensity_fusion_name_format"],
                  inp["out_label_post_prob_name_format"],
                  inp["out_atlas_voting_weight_name_format"]>>
        n == IF ~isdefined(opts[1]) THEN 0
             ELSE IF ~isdefined(opts[2]) THEN 1
             ELSE IF ~isdefined(opts[3]) THEN 2 ELSE 3
    IN  <<Render(Val(inp["out_label_fusion"]))>>
            \o [k \in 1..n |-> Render(Val(opts[k]))]

\* JointFusion._format_arg(opt="out_label_fusion")
JF_format_label_fusion(inp) ==
    IF ~isdefined(inp["out_label_fusion"]) THEN Undef
    ELSE IF Len(JF_output_args(inp)) = 1 THEN Def("-o " \o JF_output_args(inp)[1])
    ELSE Def("-o [" \o Join(JF_output_args(inp), ", ") \o "]")

\* _format_arg rendering the intensity format as an option of its own
\* whether or not out_label_fusion is set
JF_format_intensity_always(inp) ==
    IF ~isdefined(inp["out_intensity_fusion_name_format"]) THEN Undef
    ELSE Def("-o " \o Render(Val(inp["out_intensity_fusion_name_format"])))

\* JointFusion._format_arg(opt="out_intensity_fusion_name_format")
JF_format_intensity(inp) ==
    IF ~isdefined(inp["out_intensity_fusion_name_format"]) THEN Undef
    ELSE IF ~isdefined(inp["out_label_fusion"])
    THEN Def("-o " \o Render(Val(inp["out_intensity_fusion_name_format"])))
    ELSE Def("")

\* JointFusion.cmdline, in the order of the docstring examples
JF_cmdline(inp) ==
    LET seg == JF_format_segmentations(inp)
    IN  IF ~seg.ok THEN seg
        ELSE Ok(<<"antsJointFusion", "-a 0.1",
                  JF_format_sets("-g", Val(inp["atlas_image"])), seg.val,
                  "-b 2.0">>
                \o Tokens(<<JF_format_intensity(inp), JF_format_label_fusion(inp)>>)
                \o <<"-s 3x3x3", JF_format_sets("-t", Val(inp["target_image"]))>>)

\* glob(os.path.abspath(name_format.replace("%d", "*"))) of a format field
JF_glob(inp, files, field) ==
    IF isdefined(inp[field])
    THEN Def(glob(files, abspath(ReplaceD(Val(inp[field])))))
    ELSE Undef

\* JointFusion._list_outputs raising when a name format matches no file
JF_list_outputs_strict(inp, files) ==
    IF \E f \in {"out_intensity_fusion_name_format",
                  "out_label_post_prob_name_format",
                  "out_atlas_voting_weight_name_format"} :
           JF_glob(inp, files, f) = Def({})
    THEN Raise("ResolutionError")
    ELSE Ok([out_label_fusion |->
                IF isdefined(inp["out_label_fusion"])
                THEN Def(abspath(Val(inp["out_label_fusion"]))) ELSE Undef,
             out_intensity_fusion |->
                JF_glob(inp, files, "out_intensity_fusion_name_format"),
             out_label_post_prob |->
                JF_glob(inp, files, "out_label_post_prob_name_format"),
             out_atlas_voting_weight |->
                JF_glob(inp, files, "out_atlas_voting_weight_name_format")])

\* JointFusion._list_outputs
JF_list_outputs(inp, files) ==
    Ok([out_label_fusion |->
            IF isdefined(inp["out_label_fusion"])
            THEN Def(abspath(Val(inp["out_label_fusion"]))) ELSE Undef,
        out_intensity_fusion |->
            JF_glob(inp, files, "out_intensity_fusion_name_format"),
        out_label_post_prob |->
            JF_glob(inp, files, "out_label_post_prob_name_format"),
        out_atlas_voting_weight |->
            JF_glob(inp, files, "out_atlas_voting_weight_name_format")])

-----------------------------------------------------------------------------
(* BrainExtraction *)

\* ants_path with the process environment asked before the interface's
BE_ants_path_process_first(inp, osenv, whichp) ==
    LET own == inp["environ"]
        got == IF isdefined(osenv) THEN osenv
               ELSE IF isdefined(own) /\ Val(own) # "" THEN own ELSE Undef
    IN  IF isdefined(got) THEN Ok(Val(got))
        ELSE IF ~isdefined(whichp) THEN Raise("RuntimeError: ANTSPATH")
        ELSE Ok(Render(dirname(Val(whichp))))

\* ants_path of lines 993-1005: the interface's ANTSPATH if it is truthy,
\* else the process's; if that is None, the directory of antsRegistration
BE_ants_path(inp, osenv, whichp) ==
    LET own == inp["environ"]
        got == IF isdefined(own) /\ Val(own) # "" THEN own ELSE osenv
    IN  IF isdefined(got) THEN Ok(Val(got))
        ELSE IF ~isdefined(whichp) THEN Raise("RuntimeError: ANTSPATH")
        ELSE Ok(Render(dirname(Val(whichp))))

\* BrainExtraction.cmdline, in the order of the docstring example
BE_cmdline(inp) ==
    Ok(<<"antsBrainExtraction.sh",
         "-a " \o Render(Val(inp["anatomical_image"])),
         "-m " \o Render(Val(inp["brain_probability_mask"])),
         "-e " \o Render(Val(inp["brain_template"])),
         "-d 3">>
       \o Tokens(<<Arg("-s ", inp["image_suffix"]),
                   IF isdefined(inp["keep_temporary_files"])
                   THEN Def("-k " \o Fmt_d(Val(inp["keep_temporary_files"])))
                   ELSE Undef,
                   Arg("-o ", inp["out_prefix"])>>))

\* BE_check_stdout without the check of lines 1011-1027
BE_check_stdout_skipped(out) == "none"

\* lines 1011-1027: what the check of the tool's output raises
BE_check_stdout(out) ==
    IF out = "clean" THEN "none"
    ELSE IF out = "line starts with: we can't find" THEN "ExecutionError"
    ELSE "UnboundLocalError"

\* the outputs _list_outputs adds when keep_temporary_files is nonzero
BE_TemporaryOutputs ==
    {"BrainExtractionCSF", "BrainExtractionGM", "BrainExtractionInitialAffine",
     "BrainExtractionInitialAffineFixed", "BrainExtractionInitialAffineMoving",
     "BrainExtractionLaplacian", "BrainExtractionPrior0GenericAffine",
     "BrainExtractionPrior1InverseWarp", "BrainExtractionPrior1Warp",
     "BrainExtractionPriorWarped", "BrainExtractionSegmentation",
     "BrainExtractionTemplateLaplacian", "BrainExtractionTmp",
     "BrainExtractionWM", "N4Corrected0", "N4Truncated0"}

BE_OutputNames ==
    {"BrainExtractionMask", "BrainExtractionBrain"} \cup BE_TemporaryOutputs

\* os.path.join(os.getcwd(), out_prefix + name + "." + image_suffix), or
\* + name + ".mat" for the affine outputs
BE_path(cwd, inp, name) ==
    join(cwd, Val(inp["out_prefix"]) \o
        (IF name \in {"BrainExtractionInitialAffine",
                      "BrainExtractionPrior0GenericAffine"}
         THEN <<name, ".mat">>
         ELSE <<name, ".">> \o Val(inp["image_suffix"])))

\* _list_outputs adding the temporary outputs whenever keep_temporary_files
\* is defined
BE_list_outputs_keep_defined(cwd, inp) ==
    LET keep == isdefined(inp["keep_temporary_files"])
    IN  IF ~isdefined(inp["out_prefix"]) \/ ~isdefined(inp["image_suffix"])
        THEN Raise("TypeError")
        ELSE Ok([name \in BE_OutputNames |->
                   IF name \in BE_TemporaryOutputs /\ ~keep THEN Undef
                   ELSE Def(BE_path(cwd, inp, name))])

\* BrainExtraction._list_outputs
BE_list_outputs(cwd, inp) ==
    LET keep == isdefined(inp["keep_temporary_files"])
                /\ Val(inp["keep_temporary_files"]) # 0
    IN  IF ~isdefined(inp["out_prefix"]) \/ ~isdefined(inp["image_suffix"])
        THEN Raise("TypeError")
        ELSE Ok([name \in BE_OutputNames |->
                   IF name \in BE_TemporaryOutputs /\ ~keep THEN Undef
                   ELSE Def(BE_path(cwd, inp, name))])

-----------------------------------------------------------------------------
(* CorticalThickness *)

\* _, _, ext = split_filename(self.inputs.segmentation_priors[0])
CT_ext(inp) == split_filename(Val(inp["segmentation_priors"])[1])[3]

\* CorticalThickness._format_arg(opt="segmentation_priors")
CT_format_priors(inp) ==
    "-p " \o Render(<<"nipype_priors", "/", "BrainSegmentationPrior", "%02d">>
                    \o CT_ext(inp))

\* CorticalThickness.cmdline, in the order of the docstring example
CT_cmdline(inp) ==
    Ok(<<"antsCorticalThickness.sh",
         "-a " \o Render(Val(inp["anatomical_image"])),
         "-m " \o Render(Val(inp["brain_probability_mask"])),
         "-e " \o Render(Val(inp["brain_template"])),
         "-d 3">>
       \o Tokens(<<Arg("-s ", inp["image_suffix"]), Arg("-o ", inp["out_prefix"])>>)
       \o <<CT_format_priors(inp),
            "-t " \o Render(Val(inp["t1_registration_template"]))>>)

\* the priors staged in one directory for every working directory
CT_priors_directory_shared(cwd) == <<"/", "tmp", "/", "nipype_priors">>

\* priors_directory = os.path.join(os.getcwd(), "nipype_priors")
CT_priors_directory(cwd) == join(cwd, <<"nipype_priors">>)

\* the targets numbered from 0, as enumerate() counts
CT_target_from_zero(cwd, inp, i) ==
    join(CT_priors_directory(cwd),
         <<"BrainSegmentationPrior", Fmt_02d(i - 1)>> \o CT_ext(inp))

\* target of the i-th prior (i from 1), lines 778-780
CT_target(cwd, inp, i) ==
    join(CT_priors_directory(cwd),
         <<"BrainSegmentationPrior", Fmt_02d(i)>> \o CT_ext(inp))

\* the staging of _run_interface, lines 773-785: the directory is made and
\* every prior is put at its target.  A staged file is followed by its
\* content, which is the prior's whether copyfile links or copies, and
\* whether or not the target was already there.
CT_stage(cwd, inp, files) ==
    LET priors == Val(inp["segmentation_priors"])
        F[k \in 0..Len(priors)] ==
            IF k = 0
            THEN IF exists(files, CT_priors_directory(cwd)) THEN files
                 ELSE written(files, CT_priors_directory(cwd), "<directory>")
            ELSE written(F[k - 1], CT_target(cwd, inp, k),
                         content(files, join(cwd, priors[k])))
    IN  F[Len(priors)]

\* the single-file outputs and the file name each is given, without the
\* prefix; lines 791-852
CT_OutputFile(inp, name) ==
    LET sfx == Val(inp["image_suffix"])
    IN  CASE name = "BrainExtractionMask" -> <<"BrainExtractionMask.">> \o sfx
          [] name = "ExtractedBrainN4" -> <<"ExtractedBrain0N4.">> \o sfx
          [] name = "BrainSegmentation" -> <<"BrainSegmentation.">> \o sfx
          [] name = "BrainSegmentationN4" -> <<"BrainSegmentation0N4.">> \o sfx
          [] name = "CorticalThickness" -> <<"CorticalThickness.">> \o sfx
          [] name = "TemplateToSubject1GenericAffine" ->
                <<"TemplateToSubject1GenericAffine.mat">>
          [] name = "TemplateToSubject0Warp" -> <<"TemplateToSubject0Warp.">> \o sfx
          [] name = "SubjectToTemplate1Warp" -> <<"SubjectToTemplate1Warp.">> \o sfx
          [] name = "SubjectToTemplate0GenericAffine" ->
                <<"SubjectToTemplate0GenericAffine.mat">>
          [] name = "SubjectToTemplateLogJacobian" ->
                <<"SubjectToTemplateLogJacobian.">> \o sfx
          [] name = "CorticalThicknessNormedToTemplate" ->
                <<"CorticalThickness.">> \o sfx
          [] name = "BrainVolumes" -> <<"brainvols.csv">>

CT_SingleOutputs ==
    {"BrainExtractionMask", "ExtractedBrainN4", "BrainSegmentation",
     "BrainSegmentationN4", "CorticalThickness",
     "TemplateToSubject1GenericAffine", "TemplateToSubject0Warp",
     "SubjectToTemplate1Warp", "SubjectToTemplate0GenericAffine",
     "SubjectToTemplateLogJacobian", "CorticalThicknessNormedToTemplate",
     "BrainVolumes"}

\* the posteriors loop of lines 807-817
CT_posteriors(cwd, inp) ==
    [i \in 1..Len(Val(inp["segmentation_priors"])) |->
        join(cwd, Val(inp["out_prefix"])
                  \o <<"BrainSegmentationPosteriors", Fmt_02d(i), ".">>
                  \o Val(inp["image_suffix"]))]

\* CorticalThickness._list_outputs
CT_list_outputs(cwd, inp) ==
    IF ~isdefined(inp["out_prefix"]) \/ ~isdefined(inp["image_suffix"])
    THEN Raise("TypeError")
    ELSE Ok([name \in CT_SingleOutputs \cup {"BrainSegmentationPosteriors"} |->
               IF name = "BrainSegmentationPosteriors"
               THEN Def(CT_posteriors(cwd, inp))
               ELSE Def(join(cwd, Val(inp["out_prefix"])
                                  \o CT_OutputFile(inp, name)))])

-----------------------------------------------------------------------------
(* The values the model assigns to the fields *)

F_noise == <<"mynoise", ".nii">>
F_label == <<"ants_fusion_label_output", ".nii">>
F_im1 == <<"im1", ".nii">>
AtlasSet1 == <<<<"rc1s1", ".nii">>, <<"rc1s2", ".nii">>>>
AtlasSet2 == <<<<"rc2s1", ".nii">>, <<"rc2s2", ".nii">>>>
Seg0 == <<"segmentation0", ".nii", ".gz">>
Seg1 == <<"segmentation1", ".nii", ".gz">>
IntensityFormat == <<"ants_joint_fusion_intensity_", "%d", ".nii", ".gz">>
PosteriorFormat == <<"ants_joint_fusion_posterior_", "%d", ".nii", ".gz">>
VotingFormat == <<"ants_joint_fusion_voting_weight_", "%d", ".nii", ".gz">>
PriorA == <<"/", "data", "/", "priorA", ".nii", ".gz">>
PriorB == <<"/", "data", "/", "priorB", ".nii", ".gz">>
PriorC == <<"priorC", ".nii">>
AntsRegistration == <<"/", "opt", "/", "ants", "/", "bin", "/", "antsRegistration">>

\* kmeans_init_centers: in order, out of order, with a repeated center,
\* fewer and more than the classes
CenterLists ==
    {<<100, 200>>, <<200, 100>>, <<100, 100>>, <<100, 200, 100>>,
     <<300, 100, 200>>, <<100>>}

Domain(c, f) ==
    CASE f = "intensity_images" -> {<<F_structural>>, <<F_T1>>}
      [] f = "mask_image" -> {F_mask, F_missing}
      [] f = "in_file" -> {F_foo, F_missing}
      [] f = "reference" -> {F_ref}
      [] f = "in_matrix_file" -> {F_foo}
      [] f = "out_file" -> {F_newbar}
      [] f = "input_wm" -> {F_wm}
      [] f = "input_gm" -> {F_gm}
      [] c = "LaplacianThickness" /\ f = "output_image" -> {F_thickness}
      [] f = "smooth_param" -> {1}
      [] f = "prior_thickness" -> {500}
      [] f = "dT" -> {2}
      [] f = "sulcus_prior" -> {3}
      [] f = "tolerance" -> {4}
      [] f = "initialization" ->
            {"Random", "KMeans", "PriorProbabilityImages", "PriorLabelImage"}
      [] f = "kmeans_init_centers" -> CenterLists
      [] f = "prior_image" -> {PriorPattern, PriorPlain, PosteriorDefault}
      [] f = "number_of_tissue_classes" -> 1..MaxClasses
      [] f = "prior_weighting" -> {1}
      [] f = "prior_probability_threshold" -> {0}
      [] f = "out_classified_image_name" -> {F_out}
      [] f = "output_posteriors_name_template" -> {PosteriorDefault, PosteriorPlain}
      [] f \in BoolFields -> BOOLEAN
      [] f = "input_image" -> {F_structural, F_T1}
      [] f = "output_image" -> {F_out}
      [] f = "bias_image" -> {F_bias}
      [] f = "noise_image" -> {F_noise}
      [] f = "input" -> {F_T1}
      [] f = "output" -> {F_out}
      [] f = "odir" -> {<<"defaced">>}
      [] f = "target_image" -> {<<<<F_im1>>>>}
      [] f = "atlas_image" -> {<<AtlasSet1>>, <<AtlasSet1, AtlasSet2>>}
      [] f = "atlas_segmentation_image" -> {<<Seg0>>, <<Seg0, Seg1>>}
      [] f = "out_label_fusion" -> {F_label}
      [] f = "out_intensity_fusion_name_format" -> {IntensityFormat}
      [] f = "out_label_post_prob_name_format" -> {PosteriorFormat}
      [] f = "out_atlas_voting_weight_name_format" -> {VotingFormat}
      [] f = "anatomical_image" -> {F_T1}
      [] f = "brain_template" -> {F_template}
      [] f = "brain_probability_mask" -> {F_probmask}
      [] f = "t1_registration_template" -> {F_regtemplate}
      [] f = "out_prefix" -> {<<"sub01_">>}
      [] f = "image_suffix" -> {<<"nii">>}
      [] f = "keep_temporary_files" -> {0, 1}
      [] f = "environ" -> {"", "/usr/lib/ants"}
      [] f = "segmentation_priors" ->
            {<<PriorA, PriorB>>, <<PriorB, PriorA>>, <<PriorC>>,
             <<PriorA, PriorB, PriorC>>}

\* `base` with the fields of `given` assigned: X(**given)
With(base, given) ==
    [f \in DOMAIN base |-> IF f \in DOMAIN given THEN Def(given[f]) ELSE base[f]]

\* the instances of the docstring examples (as far as the model follows
\* their fields), and the instance X() with nothing assigned
Constructed(c) ==
    {NewInputs(c)} \cup
    CASE c = "Atropos" ->
          LET ex == [intensity_images |-> <<F_structural>>, mask_image |-> F_mask,
                     number_of_tissue_classes |-> 2, save_posteriors |-> TRUE]
          IN  {With(NewInputs(c), ex @@ [initialization |-> "Random"]),
               With(NewInputs(c), ex @@ [initialization |-> "KMeans",
                                         kmeans_init_centers |-> <<100, 200>>]),
               With(NewInputs(c), ex @@ [initialization |-> "PriorProbabilityImages",
                                         prior_image |-> PriorPattern,
                                         prior_weighting |-> 1,
                                         prior_probability_threshold |-> 0]),
               With(NewInputs(c), ex @@ [initialization |-> "PriorLabelImage",
                                         prior_image |-> PriorPlain,
                                         prior_weighting |-> 1])}
      [] c = "N4BiasFieldCorrection" ->
          {With(NewInputs(c), [input_image |-> F_structural]),
           With(NewInputs(c), [input_image |-> F_structural, save_bias |-> TRUE])}
      [] c = "DenoiseImage" ->
          {With(NewInputs(c), [input_image |-> F_structural]),
           With(NewInputs(c), [input_image |-> F_structural, save_noise |-> TRUE])}
      [] c = "Mideface" -> {With(NewInputs(c), [input |-> F_T1])}
      [] c \in {"BET", "MCFLIRT"} -> {With(NewInputs(c), [in_file |-> F_foo])}
      [] c = "ApplyXfm" ->
          {With(NewInputs(c), [apply_xfm |-> TRUE]),
           With(NewInputs(c), [in_file |-> F_foo, in_matrix_file |-> F_foo,
                               out_file |-> F_newbar, reference |-> F_ref,
                               apply_xfm |-> TRUE])}
      [] c = "LaplacianThickness" ->
          {With(NewInputs(c), [input_wm |-> F_wm, input_gm |-> F_gm]),
           With(NewInputs(c), [input_wm |-> F_wm, input_gm |-> F_gm,
                               smooth_param |-> 1, prior_thickness |-> 500,
                               dT |-> 2])}
      [] c = "JointFusion" ->
          {With(NewInputs(c), [out_label_fusion |-> F_label,
                               atlas_image |-> <<AtlasSet1>>,
                               atlas_segmentation_image |-> <<Seg0>>,
                               target_image |-> <<<<F_im1>>>>]),
           With(NewInputs(c), [out_label_fusion |-> F_label,
                               atlas_image |-> <<AtlasSet1, AtlasSet2>>,
                               atlas_segmentation_image |-> <<Seg0, Seg1>>,
                               target_image |-> <<<<F_im1>>>>,
                               out_intensity_fusion_name_format |-> IntensityFormat,
                               out_label_post_prob_name_format |-> PosteriorFormat,
                               out_atlas_voting_weight_name_format |-> VotingFormat])}
      [] c = "BrainExtraction" ->
          {With(NewInputs(c), [anatomical_image |-> F_T1,
                               brain_template |-> F_template,
                               brain_probability_mask |-> F_probmask])}
      [] c = "CorticalThickness" ->
          {With(NewInputs(c), [anatomical_image |-> F_T1,
                               brain_template |-> F_template,
                               brain_probability_mask |-> F_probmask,
                               segmentation_priors |-> <<PriorA, PriorB, PriorC>>,
                               t1_registration_template |-> F_regtemplate])}

File(p, c) == [path |-> abspath(p), content |-> c]

\* the prior images of Atropos that may be on disk
AtroposPriorFiles ==
    {File(Fill(PriorPattern, i), "prior") : i \in 1..MaxClasses}
        \cup {File(PriorPlain, "prior")}

\* the files on disk when the instance is constructed
InitialFs(c) ==
    CASE c = "Atropos" ->
            {{File(Fill(PriorPattern, 1), "prior")}, AtroposPriorFiles}
      [] c = "JointFusion" -> {{}, {File(Fill(IntensityFormat, 7), "earlier run")}}
      [] c = "CorticalThickness" ->
            {{File(PriorA, "A"), File(PriorB, "B"), File(PriorC, "C")}}
      [] OTHER -> {{}}

-----------------------------------------------------------------------------
(* The steps of run(), by interface class *)

\* what _run_interface does before it hands over to the command line:
\* BrainExtraction settles ANTSPATH, CorticalThickness stages its priors
PreRun(c, inp, files, osenv, whichp) ==
    IF c = "BrainExtraction"
    THEN LET a == BE_ants_path(inp, osenv, whichp)
         IN  IF a.ok
             THEN [ok |-> TRUE, err |-> "none", files |-> files,
                   inputs |-> [inp EXCEPT !["environ"] = Def(a.val)],
                   rt |-> Def(a.val)]
             ELSE [ok |-> FALSE, err |-> a.err, files |-> files, inputs |-> inp,
                   rt |-> Undef]
    ELSE IF c = "CorticalThickness"
    THEN [ok |-> TRUE, err |-> "none", files |-> CT_stage(Cwd, inp, files),
          inputs |-> inp, rt |-> Undef]
    ELSE [ok |-> TRUE, err |-> "none", files |-> files, inputs |-> inp,
          rt |-> Undef]

\* N4BiasFieldCorrection without its _parse_inputs override: what the
\* attribute held stays
ParseInputs_inherited(c, inp, ob) == ob

\* self._out_bias_file after _parse_inputs
ParseInputs(c, inp, ob) ==
    IF c = "N4BiasFieldCorrection" THEN N4_parse_inputs(inp, ob) ELSE ob

\* self.cmdline; `order` is the order in which the fields were assigned
Cmdline(c, inp, files, ob, order) ==
    CASE c = "Atropos" -> Atropos_cmdline(inp, files)
      [] c = "LaplacianThickness" -> LT_cmdline(inp, order)
      [] c \in {"BET", "MCFLIRT", "ApplyXfm"} -> FSL_cmdline(c, inp)
      [] c = "N4BiasFieldCorrection" -> N4_cmdline(inp, ob)
      [] c = "DenoiseImage" -> Denoise_cmdline(inp)
      [] c = "Mideface" -> Mideface_cmdline(inp)
      [] c = "JointFusion" -> JF_cmdline(inp)
      [] c = "BrainExtraction" -> BE_cmdline(inp)
      [] c = "CorticalThickness" -> CT_cmdline(inp)

\* self._list_outputs()
ListOutputs(c, inp, files, ob) ==
    CASE c = "Atropos" -> Atropos_list_outputs(inp)
      [] c = "LaplacianThickness" -> LT_list_outputs(inp)
      [] c \in {"BET", "MCFLIRT", "ApplyXfm"} -> FSL_list_outputs(c, inp)
      [] c = "N4BiasFieldCorrection" -> N4_list_outputs(inp, ob)
      [] c = "DenoiseImage" -> Denoise_list_outputs(inp)
      [] c = "Mideface" -> Mideface_list_outputs(inp)
      [] c = "JointFusion" -> JF_list_outputs(inp, files)
      [] c = "BrainExtraction" -> BE_list_outputs(Cwd, inp)
      [] c = "CorticalThickness" -> CT_list_outputs(Cwd, inp)

\* _list_outputs leaving the first file it names behind, empty
ListOutputsEffect_touches(c, inp, files, ob) ==
    [inputs |-> inp,
     files |-> IF c = "N4BiasFieldCorrection"
               THEN written(files, abspath(N4_output_image(inp)), "")
               ELSE IF c = "Atropos"
               THEN written(files, abspath(Atropos_gen_filename(inp)), "")
               ELSE files,
     out_bias |-> ob]

\* what a call of _list_outputs leaves of the instance and of the
\* filesystem: every _list_outputs only reads the fields, os.getcwd() and,
\* for JointFusion, glob
ListOutputsEffect(c, inp, files, ob) ==
    [inputs |-> inp, files |-> files, out_bias |-> ob]

\* what the tool may print, as far as the wrapper reads it
StdoutKinds(c) ==
    IF c = "BrainExtraction"
    THEN {"clean", "line starts with: we can't find", "line holds: we can't find"}
    ELSE {"clean"}

\* the files Atropos leaves: unless it wrote nothing (k = 0), one posterior
\* per class under the template handed over in --output
Atropos_tool_writes(inp, files, k) ==
    IF k >= 1 /\ isdefined(inp["save_posteriors"])
       /\ isdefined(inp["output_posteriors_name_template"])
       /\ isdefined(inp["number_of_tissue_classes"])
    THEN files \cup
         {File(Fill(Val(inp["output_posteriors_name_template"]), i),
               "posterior") :
            i \in 1..Val(inp["number_of_tissue_classes"])}
    ELSE files

\* the files antsJointFusion leaves: `k` volumes for every name format it
\* was given
JF_tool_writes(inp, files, k) ==
    files \cup
         {File(Fill(Val(inp[f]), i), "fused") :
            f \in {g \in {"out_intensity_fusion_name_format",
                          "out_label_post_prob_name_format",
                          "out_atlas_voting_weight_name_format"} :
                        isdefined(inp[g])},
            i \in 1..k}

\* the files the tool leaves behind, as far as the wrapper looks for them
ToolWrites(c, inp, files, k) ==
    IF c = "Atropos" THEN Atropos_tool_writes(inp, files, k)
    ELSE IF c = "JointFusion" THEN JF_tool_writes(inp, files, k)
    ELSE files

\* what the wrapper raises once the tool has returned
AfterRun(c, rc, out) ==
    IF rc # 0 THEN "ExecutionError"
    ELSE IF c = "BrainExtraction" THEN BE_check_stdout(out)
    ELSE "none"

-----------------------------------------------------------------------------
(* The state machine *)

TypeOK ==
    /\ iface \in Interfaces
    /\ nset \in 0..MaxAssign
    /\ pc \in {"Unvalidated", "Validated", "Compiled", "Executed", "Resolved",
               "Failed"}
    /\ spawned \in 0..1
    /\ runs \in 0..MaxRuns

Init ==
    /\ iface \in Interfaces
    /\ inputs \in Constructed(iface)
    /\ nset = 0
    /\ pc = "Unvalidated"
    /\ err = "none"
    /\ failedAt = "none"
    /\ cmdline = Undef
    /\ outputs = Undef
    /\ fs \in InitialFs(iface)
    /\ fs0 = fs
    /\ spawned = 0
    /\ out_bias = Undef
    /\ os_env \in IF iface = "BrainExtraction"
                  THEN {Undef, Def(""), Def("/home/ants/bin")} ELSE {Undef}
    /\ which_ants \in IF iface = "BrainExtraction"
                      THEN {Undef, Def(AntsRegistration)} ELSE {Undef}
    /\ rt_env = Undef
    /\ stdout = "none"
    /\ runs = 0
    /\ assigned = <<>>
    /\ par = <<>>
    /\ rejected = "none"

\* the instance after interface.inputs.<f> = v: a path that is not on disk
\* is refused for a field declared File(exists=True), and the field stays
\* as it was
Assign(c, inp, files, order, f, v) ==
    IF TraitError(c, files, f, v)
    THEN [inputs |-> inp, order |-> order, raised |-> "TraitError"]
    ELSE [inputs |-> [inp EXCEPT ![f] = v],
          order |-> IF c \notin Positional
                       \/ \E k \in 1..Len(order) : order[k] = f
                    THEN order
                    ELSE Append(order, f),
          raised |-> "none"]

\* interface.inputs.<f> = v, or = Undefined, for a value the field does not
\* hold already
SetField(f, v) ==
    /\ pc = "Unvalidated"
    /\ nset < MaxAssign
    /\ inputs[f] # v
    /\ LET a == Assign(iface, inputs, fs, assigned, f, v)
       IN  /\ inputs' = a.inputs
           /\ assigned' = a.order
           /\ rejected' = a.raised
    /\ nset' = nset + 1
    /\ UNCHANGED <<par, iface, pc, err, failedAt, cmdline, outputs, fs, fs0, spawned,
                   out_bias, os_env, which_ants, rt_env, stdout, runs>>

\* run(<f>=v): the keyword argument is assigned, and unless that raises the
\* inputs are validated
RunWith(f, v) ==
    /\ pc = "Unvalidated"
    /\ nset < MaxAssign
    /\ inputs[f] # v
    /\ LET a == Assign(iface, inputs, fs, assigned, f, v)
           r == validate(iface, a.inputs)
       IN  /\ inputs' = a.inputs
           /\ assigned' = a.order
           /\ rejected' = a.raised
           /\ pc' = IF a.raised # "none" THEN "Unvalidated"
                    ELSE IF r = "ok" THEN "Validated" ELSE "Failed"
           /\ err' = IF a.raised # "none" \/ r = "ok" THEN "none" ELSE r
           /\ failedAt' = IF a.raised # "none" \/ r = "ok" THEN "none"
                          ELSE "Unvalidated"
    /\ nset' = nset + 1
    /\ UNCHANGED <<par, iface, cmdline, outputs, fs, fs0, spawned, out_bias,
                   os_env, which_ants, rt_env, stdout, runs>>

\* run(): the inputs are validated
Validate ==
    /\ pc = "Unvalidated"
    /\ LET v == validate(iface, inputs)
       IN  /\ pc' = IF v = "ok" THEN "Validated" ELSE "Failed"
           /\ err' = IF v = "ok" THEN "none" ELSE v
           /\ failedAt' = IF v = "ok" THEN "none" ELSE "Unvalidated"
    /\ rejected' = "none"
    /\ UNCHANGED <<par, iface, assigned, inputs, nset, cmdline, outputs, fs, fs0, spawned,
                   out_bias, os_env, which_ants, rt_env, stdout, runs>>

\* _run_interface up to the spawn: its own preparation, then the command
\* line is compiled
Compile ==
    /\ pc = "Validated"
    /\ LET pre == PreRun(iface, inputs, fs, os_env, which_ants)
           ob == IF pre.ok THEN ParseInputs(iface, pre.inputs, out_bias)
                 ELSE out_bias
           cmd == IF pre.ok THEN Cmdline(iface, pre.inputs, pre.files, ob, assigned)
                  ELSE Raise(pre.err)
       IN  /\ inputs' = pre.inputs
           /\ fs' = pre.files
           /\ rt_env' = pre.rt
           /\ out_bias' = ob
           /\ pc' = IF cmd.ok THEN "Compiled" ELSE "Failed"
           /\ err' = cmd.err
           /\ failedAt' = IF cmd.ok THEN "none" ELSE "Validated"
           /\ cmdline' = IF cmd.ok THEN Def(cmd.val) ELSE Undef
    /\ UNCHANGED <<rejected, par, iface, assigned, nset, outputs, fs0, spawned, os_env, which_ants, stdout,
                   runs>>

\* the subprocess is spawned and waited for; then the wrapper's own check
\* of what it printed
Execute(rc, out, k) ==
    /\ pc = "Compiled"
    /\ spawned' = spawned + 1
    /\ stdout' = out
    /\ fs' = ToolWrites(iface, inputs, fs, k)
    /\ LET e == AfterRun(iface, rc, out)
       IN  /\ pc' = IF e = "none" THEN "Executed" ELSE "Failed"
           /\ err' = e
           /\ failedAt' = IF e = "none" THEN "none" ELSE "Compiled"
    /\ UNCHANGED <<rejected, par, iface, assigned, inputs, nset, cmdline, outputs, fs0, out_bias, os_env,
                   which_ants, rt_env, runs>>

\* aggregate_outputs: _list_outputs maps the instance to its outputs
Resolve ==
    /\ pc = "Executed"
    /\ LET r == ListOutputs(iface, inputs, fs, out_bias)
           after == ListOutputsEffect(iface, inputs, fs, out_bias)
       IN  /\ pc' = IF r.ok THEN "Resolved" ELSE "Failed"
           /\ err' = r.err
           /\ failedAt' = IF r.ok THEN "none" ELSE "Executed"
           /\ outputs' = IF r.ok THEN Def(r.val) ELSE Undef
           /\ inputs' = after.inputs
           /\ fs' = after.files
           /\ out_bias' = after.out_bias
    /\ UNCHANGED <<rejected, par, iface, assigned, nset, cmdline, fs0, spawned, os_env, which_ants, rt_env,
                   stdout, runs>>

\* run() has returned or raised; the instance is at rest again, and what
\* belonged to the invocation is gone
Return ==
    /\ pc \in {"Resolved", "Failed"}
    /\ runs < MaxRuns
    /\ runs' = runs + 1
    /\ pc' = "Unvalidated"
    /\ err' = "none"
    /\ failedAt' = "none"
    /\ cmdline' = Undef
    /\ outputs' = Undef
    /\ spawned' = 0
    /\ rt_env' = Undef
    /\ stdout' = "none"
    /\ fs0' = fs
    /\ UNCHANGED <<rejected, par, iface, assigned, inputs, nset, fs, out_bias, os_env, which_ants>>

Next ==
    \/ \E f \in Fields(iface) : \E v \in {Def(x) : x \in Domain(iface, f)} \cup {Undef} :
          SetField(f, v)
    \/ \E f \in ExistingFileFields(iface) : \E v \in {Def(x) : x \in Domain(iface, f)} :
          RunWith(f, v)
    \/ Validate
    \/ Compile
    \/ \E rc \in {0, 1} : \E out \in StdoutKinds(iface) : \E k \in 0..MaxVolumes :
          Execute(rc, out, k)
    \/ Resolve
    \/ Return

Spec == Init /\ [][Next]_vars

-----------------------------------------------------------------------------
(* Two invocations at once: each is run by a process of its own, in a      *)
(* working directory of its own, on an instance of its own; the processes  *)
(* share the filesystem, and the environment they were started in.         *)

Procs == {1, 2}

\* os.getcwd() in process p
WorkDir(p) == <<"/", "work", "/", "node" \o ToString(p)>>

\* the instances the two processes run
ParInputs(c) ==
    IF c = "CorticalThickness"
    THEN {NewInputs(c)} \cup
         {With(NewInputs(c), [anatomical_image |-> F_T1,
                              brain_template |-> F_template,
                              brain_probability_mask |-> F_probmask,
                              segmentation_priors |-> pri,
                              t1_registration_template |-> F_regtemplate]) :
            pri \in {<<PriorA, PriorB>>, <<PriorB, PriorA>>, <<PriorC>>}}
    ELSE Constructed(c)

\* the prior images on disk: two under /data, and one in each working
\* directory under the same relative name
ParFs ==
    {[path |-> PriorA, content |-> "A"], [path |-> PriorB, content |-> "B"]}
        \cup {[path |-> join(WorkDir(p), PriorC),
                content |-> "C of " \o ToString(p)] : p \in Procs}

\* a process about to call run() on an instance of class c; `given` keeps
\* the inputs it was handed, `staged` counts the priors it has staged
ParInstances(c) ==
    {[cls |-> c, given |-> g, inputs |-> g, pc |-> "Unvalidated", staged |-> 0,
      cmdline |-> Undef, outputs |-> Undef, err |-> "none"] : g \in ParInputs(c)}

ParInit ==
    /\ par \in [Procs -> UNION {ParInstances(c) :
                                c \in {"CorticalThickness", "BrainExtraction"}}]
    /\ fs = ParFs
    /\ fs0 = ParFs
    /\ os_env \in {Undef, Def("/home/ants/bin")}
    /\ which_ants \in {Undef, Def(AntsRegistration)}
    /\ iface = "CorticalThickness"
    /\ inputs = NewInputs("CorticalThickness")
    /\ nset = 0
    /\ pc = "Unvalidated"
    /\ err = "none"
    /\ failedAt = "none"
    /\ cmdline = Undef
    /\ outputs = Undef
    /\ spawned = 0
    /\ out_bias = Undef
    /\ rt_env = Undef
    /\ stdout = "none"
    /\ runs = 0
    /\ assigned = <<>>
    /\ rejected = "none"

\* what a step of a process leaves alone: the instance of the sequential
\* model, and the environment
ParFrame ==
    UNCHANGED <<iface, inputs, nset, pc, err, failedAt, cmdline, outputs, fs0,
                spawned, out_bias, os_env, which_ants, rt_env, stdout, runs,
                assigned, rejected>>

\* run() in process p: the inputs are validated
ParValidate(p) ==
    /\ par[p].pc = "Unvalidated"
    /\ LET v == validate(par[p].cls, par[p].inputs)
       IN  par' = [par EXCEPT ![p].pc = IF v = "ok" THEN "Validated" ELSE "Failed",
                              ![p].err = IF v = "ok" THEN "none" ELSE v]
    /\ fs' = fs
    /\ ParFrame

\* _run_interface begins: BrainExtraction settles ANTSPATH (993-1008),
\* CorticalThickness makes its priors directory (773-775)
ParPrepare(p) ==
    /\ par[p].pc = "Validated"
    /\ IF par[p].cls = "BrainExtraction"
       THEN LET a == BE_ants_path(par[p].inputs, os_env, which_ants)
            IN  /\ par' = [par EXCEPT
                             ![p].pc = IF a.ok THEN "Staged" ELSE "Failed",
                             ![p].err = a.err,
                             ![p].inputs = IF a.ok
                                           THEN [par[p].inputs EXCEPT
                                                   !["environ"] = Def(a.val)]
                                           ELSE par[p].inputs]
                /\ fs' = fs
       ELSE /\ par' = [par EXCEPT ![p].pc = "Staging"]
            /\ fs' = IF exists(fs, CT_priors_directory(WorkDir(p))) THEN fs
                     ELSE written(fs, CT_priors_directory(WorkDir(p)),
                                  "<directory>")
    /\ ParFrame

\* one turn of the loop of lines 777-785: the next prior is put at its target
ParStage(p) ==
    /\ par[p].pc = "Staging"
    /\ LET priors == Val(par[p].inputs["segmentation_priors"])
           k == par[p].staged + 1
       IN  /\ fs' = written(fs, CT_target(WorkDir(p), par[p].inputs, k),
                            content(fs, join(WorkDir(p), priors[k])))
           /\ par' = [par EXCEPT ![p].staged = k,
                                 ![p].pc = IF k = Len(priors) THEN "Staged"
                                           ELSE "Staging"]
    /\ ParFrame

\* the command line is compiled
ParCompile(p) ==
    /\ par[p].pc = "Staged"
    /\ LET cmd == Cmdline(par[p].cls, par[p].inputs, fs, Undef, <<>>)
       IN  par' = [par EXCEPT ![p].pc = IF cmd.ok THEN "Compiled" ELSE "Failed",
                              ![p].err = cmd.err,
                              ![p].cmdline = IF cmd.ok THEN Def(cmd.val) ELSE Undef]
    /\ fs' = fs
    /\ ParFrame

\* the subprocess of process p is spawned and waited for
ParExecute(p, rc) ==
    /\ par[p].pc = "Compiled"
    /\ par' = [par EXCEPT ![p].pc = IF rc = 0 THEN "Executed" ELSE "Failed",
                          ![p].err = IF rc = 0 THEN "none" ELSE "ExecutionError"]
    /\ fs' = fs
    /\ ParFrame

\* _list_outputs in process p
ParResolve(p) ==
    /\ par[p].pc = "Executed"
    /\ LET r == IF par[p].cls = "BrainExtraction"
                THEN BE_list_outputs(WorkDir(p), par[p].inputs)
                ELSE CT_list_outputs(WorkDir(p), par[p].inputs)
       IN  par' = [par EXCEPT ![p].pc = IF r.ok THEN "Resolved" ELSE "Failed",
                              ![p].err = r.err,
                              ![p].outputs = IF r.ok THEN Def(r.val) ELSE Undef]
    /\ fs' = fs
    /\ ParFrame

ParNext ==
    \/ \E p \in Procs : ParValidate(p)
    \/ \E p \in Procs : ParPrepare(p)
    \/ \E p \in Procs : ParStage(p)
    \/ \E p \in Procs : ParCompile(p)
    \/ \E p \in Procs : \E rc \in {0, 1} : ParExecute(p, rc)
    \/ \E p \in Procs : ParResolve(p)

SpecPar == ParInit /\ [][ParNext]_vars

-----------------------------------------------------------------------------
(* Calls made on an instance outside run(): the fields are assigned, the   *)
(* cmdline property is read and _list_outputs() is called, in any order.   *)
(* cmdline and outputs hold what the latest such call returned for the     *)
(* field values as they are; an assignment lets both go.                   *)

CallsInit ==
    /\ Init
    /\ iface = "N4BiasFieldCorrection"

\* interface.inputs.<f> = v
CallAssign(f, v) ==
    /\ nset < MaxAssign
    /\ inputs[f] # v
    /\ LET a == Assign(iface, inputs, fs, assigned, f, v)
       IN  /\ inputs' = a.inputs
           /\ assigned' = a.order
           /\ rejected' = a.raised
    /\ nset' = nset + 1
    /\ cmdline' = Undef
    /\ outputs' = Undef
    /\ err' = "none"
    /\ UNCHANGED <<par, iface, pc, failedAt, fs, fs0, spawned, out_bias, os_env,
                   which_ants, rt_env, stdout, runs>>

\* interface.cmdline: the inputs are checked, then _parse_inputs renders
\* the arguments; when the check raises, _parse_inputs is not reached
CallCmdline ==
    /\ LET v == validate(iface, inputs)
           ob == ParseInputs(iface, inputs, out_bias)
           cmd == Cmdline(iface, inputs, fs, ob, assigned)
       IN  IF v # "ok"
           THEN /\ err' = v
                /\ cmdline' = Undef
                /\ out_bias' = out_bias
           ELSE /\ err' = cmd.err
                /\ cmdline' = IF cmd.ok THEN Def(cmd.val) ELSE Undef
                /\ out_bias' = ob
    /\ outputs' = Undef
    /\ UNCHANGED <<par, iface, inputs, nset, pc, failedAt, fs, fs0, spawned,
                   os_env, which_ants, rt_env, stdout, runs, assigned, rejected>>

\* interface._list_outputs(), on an instance whose mandatory inputs are set
CallListOutputs ==
    /\ ~MissingMandatory(iface, inputs)
    /\ LET r == ListOutputs(iface, inputs, fs, out_bias)
           after == ListOutputsEffect(iface, inputs, fs, out_bias)
       IN  /\ err' = r.err
           /\ outputs' = IF r.ok THEN Def(r.val) ELSE Undef
           /\ inputs' = after.inputs
           /\ fs' = after.files
           /\ out_bias' = after.out_bias
    /\ UNCHANGED <<par, iface, nset, pc, failedAt, cmdline, fs0, spawned, os_env,
                   which_ants, rt_env, stdout, runs, assigned, rejected>>

CallsNext ==
    \/ \E f \in Fields(iface) : \E v \in {Def(x) : x \in Domain(iface, f)} \cup {Undef} :
          CallAssign(f, v)
    \/ CallCmdline
    \/ CallListOutputs

SpecCalls == CallsInit /\ [][CallsNext]_vars

-----------------------------------------------------------------------------
(* Properties *)

\* the invocation has got past validation
PastValidation ==
    \/ pc \in {"Validated", "Compiled", "Executed", "Resolved"}
    \/ pc = "Failed" /\ failedAt # "Unvalidated"

\* the command line of the invocation has been compiled, or its compilation
\* has failed
PastCompilation ==
    \/ pc \in {"Compiled", "Executed", "Resolved"}
    \/ pc = "Failed" /\ failedAt # "Unvalidated"

\* the fields the input specifications mark mandatory=True, as the source
\* lists them class by class
DeclaredMandatory ==
    [Atropos |-> {"intensity_images", "mask_image", "initialization",
                  "number_of_tissue_classes"},
     N4BiasFieldCorrection |-> {"input_image", "save_bias"},
     DenoiseImage |-> {"input_image", "save_noise"},
     Mideface |-> {},
     JointFusion |-> {"target_image", "atlas_image", "atlas_segmentation_image"},
     BrainExtraction |-> {"anatomical_image", "brain_template",
                          "brain_probability_mask"},
     CorticalThickness |-> {"anatomical_image", "brain_template",
                            "brain_probability_mask", "segmentation_priors",
                            "t1_registration_template"},
     LaplacianThickness |-> {"input_wm", "input_gm"},
     BET |-> {"in_file"},
     MCFLIRT |-> {"in_file"},
     ApplyXfm |-> {"in_file", "reference"}]

SomeMandatoryUnset == \E f \in DeclaredMandatory[iface] : ~isdefined(inputs[f])

LinearStep(a, b) ==
    \/ a = b
    \/ <<a, b>> \in {<<"Unvalidated", "Validated">>, <<"Validated", "Compiled">>,
                     <<"Compiled", "Executed">>, <<"Executed", "Resolved">>}
    \/ a \in {"Unvalidated", "Validated", "Compiled", "Executed"} /\ b = "Failed"
    \/ a \in {"Resolved", "Failed"} /\ b = "Unvalidated"

C3_CompileDeterministic ==
    [][(pc = "Validated" /\ pc' = "Compiled") =>
          /\ cmdline' = Def(Cmdline(iface, inputs', fs',
                                    ParseInputs(iface, inputs', out_bias'),
                                    assigned').val)
          /\ cmdline' = Def(Cmdline(iface, inputs', fs',
                                    ParseInputs(iface, inputs', Undef),
                                    assigned').val)
      ]_vars

\* N4BiasFieldCorrection has compiled its command line in a second
\* invocation, no field having been assigned since the first
C3_Witness ==
    /\ iface = "N4BiasFieldCorrection"
    /\ runs >= 1 /\ nset = 0
    /\ pc = "Compiled"
    /\ inputs["save_bias"] = Def(TRUE)

\* the pairs of fields that the input specifications declare mutually
\* exclusive (xor=[...] on either of the two)
DeclaredExclusive ==
    [Atropos |-> {},
     N4BiasFieldCorrection |-> {<<"save_bias", "bias_image">>},
     DenoiseImage |-> {<<"save_noise", "noise_image">>},
     Mideface |-> {<<"samesegfast", "nosamesegfast">>, <<"nii", "niigz">>,
                   <<"nii", "mgz">>, <<"niigz", "mgz">>, <<"nii", "output">>,
                   <<"niigz", "output">>, <<"mgz", "output">>},
     JointFusion |-> {},
     BrainExtraction |-> {},
     CorticalThickness |-> {},
     LaplacianThickness |-> {},
     BET |-> {},
     MCFLIRT |-> {},
     ApplyXfm |-> {}]

\* a field is set: it holds a value, and save_bias and save_noise, which
\* are False on a new instance, hold True
IsSet(f) ==
    isdefined(inputs[f]) /\ (f \in {"save_bias", "save_noise"} => Val(inputs[f]))

\* C4: from the moment an invocation is validated, that is when its
\* compilation begins, no two fields declared mutually exclusive are both
\* set.
C4_ExclusiveAtCompile ==
    PastValidation =>
        \A p \in DeclaredExclusive[iface] : ~(IsSet(p[1]) /\ IsSet(p[2]))

\* an instance on which bias_image was assigned after save_bias = True has
\* been refused by validation
C4_Witness ==
    /\ iface = "N4BiasFieldCorrection"
    /\ inputs["save_bias"] = Def(TRUE) /\ isdefined(inputs["bias_image"])
    /\ pc = "Failed" /\ err = "MutuallyExclusiveViolation"

\* Atropos is to initialize with KMeans from given centers
KMeansWithCenters ==
    /\ iface = "Atropos"
    /\ inputs["initialization"] = Def("KMeans")
    /\ isdefined(inputs["kmeans_init_centers"])
    /\ isdefined(inputs["number_of_tissue_classes"])

SuppliedCenters == Val(inputs["kmeans_init_centers"])
DistinctCenters == {SuppliedCenters[k] : k \in 1..Len(SuppliedCenters)}
NClasses == Val(inputs["number_of_tissue_classes"])

\* the compilation of the invocation has failed with the count-mismatch error
CountMismatch ==
    pc = "Failed" /\ failedAt = "Validated" /\ err = "ValueError: number of centers"

\* C5 (as amended): Atropos compilation with initialization KMeans and
\* kmeans_init_centers set fails with the count-mismatch error exactly when
\* the number of distinct centers supplied differs from
\* number_of_tissue_classes, and otherwise yields a command line.
C5_DistinctCentersCounted ==
    (KMeansWithCenters /\ PastCompilation) =>
        /\ CountMismatch <=> Cardinality(DistinctCenters) # NClasses
        /\ ~CountMismatch => isdefined(cmdline)

\* C5 (as stated): the same with the number of centers supplied
C5_AsStated ==
    (KMeansWithCenters /\ PastCompilation) =>
        (CountMismatch <=> Len(SuppliedCenters) # NClasses)

\* two centers were supplied for two classes and the compilation has failed
\* with the count mismatch
C5_Witness ==
    /\ KMeansWithCenters /\ CountMismatch
    /\ SuppliedCenters = <<100, 100>> /\ NClasses = 2

\* the elements of a set of numbers in ascending order
Ascending(S) ==
    CHOOSE s \in [1..Cardinality(S) -> S] :
        \A i, j \in 1..Cardinality(S) : i < j => s[i] < s[j]

\* KMeans[N,c1,...,cN] for the set S of centers
KMeansToken(n, S) ==
    "--initialization KMeans[" \o ToString(n) \o ","
        \o Join([k \in 1..Cardinality(S) |-> ToString(Ascending(S)[k])], ",")
        \o "]"

\* C6 (as amended): for Atropos with initialization KMeans and N tissue
\* classes, when the centers supplied hold N distinct values the compiled
\* initialization token is KMeans[N,c1,...,cN]: the class count, then the
\* distinct centers in ascending order, whatever order they were supplied in.
C6_KMeansToken ==
    (KMeansWithCenters /\ PastCompilation
        /\ Cardinality(DistinctCenters) = NClasses) =>
        /\ isdefined(cmdline)
        /\ Val(cmdline)[3] = KMeansToken(NClasses, DistinctCenters)

\* C6 (as stated): the same for every list of N centers
C6_AsStated ==
    (KMeansWithCenters /\ PastCompilation /\ Len(SuppliedCenters) = NClasses) =>
        /\ isdefined(cmdline)
        /\ Val(cmdline)[3] = KMeansToken(NClasses, DistinctCenters)

\* centers supplied out of order have been compiled
C6_Witness ==
    /\ KMeansWithCenters /\ pc = "Compiled"
    /\ SuppliedCenters = <<300, 100, 200>> /\ NClasses = 3
    /\ Val(cmdline)[3] = "--initialization KMeans[3,100,200,300]"

\* the invocation has got as far as resolving its outputs
PastExecution == pc = "Resolved" \/ (pc = "Failed" /\ failedAt = "Executed")

\* i written with two digits
TwoDigits(i) == IF i < 10 THEN "0" \o ToString(i) ELSE ToString(i)

\* C7: resolution of an enumerable output with declared count N yields
\* exactly N paths, the i-th being the name template filled with i: for
\* Atropos with save_posteriors true and the name template
\* POSTERIOR_%02d.nii.gz the posteriors are POSTERIOR_01.nii.gz to
\* POSTERIOR_<N>.nii.gz in the working directory, N the number of tissue
\* classes, and resolution fails only for a template that does not hold
\* exactly one number; for CorticalThickness the i-th of
\* BrainSegmentationPosteriors is <out_prefix>BrainSegmentationPosteriors<i
\* in two digits>.<image_suffix> for i up to the number of priors.
C7_EnumeratedOutputs ==
    /\ (iface = "Atropos" /\ PastExecution
          /\ inputs["save_posteriors"] = Def(TRUE)
          /\ inputs["output_posteriors_name_template"] = Def(PosteriorDefault)) =>
          /\ pc = "Resolved"
          /\ isdefined(Val(outputs).posteriors)
          /\ LET p == Val(Val(outputs).posteriors)
             IN  /\ Len(p) = Val(inputs["number_of_tissue_classes"])
                 /\ \A i \in 1..Len(p) :
                       Render(p[i]) = "/work/POSTERIOR_" \o TwoDigits(i) \o ".nii.gz"
    /\ (iface = "Atropos" /\ pc = "Failed" /\ failedAt = "Executed") =>
          /\ inputs["save_posteriors"] = Def(TRUE)
          /\ inputs["output_posteriors_name_template"] # Def(PosteriorDefault)
    /\ (iface = "CorticalThickness" /\ pc = "Resolved") =>
          LET p == Val(Val(outputs)["BrainSegmentationPosteriors"])
          IN  /\ Len(p) = Len(Val(inputs["segmentation_priors"]))
              /\ \A i \in 1..Len(p) :
                    Render(p[i]) = "/work/" \o Render(Val(inputs["out_prefix"]))
                                      \o "BrainSegmentationPosteriors"
                                      \o TwoDigits(i) \o "."
                                      \o Render(Val(inputs["image_suffix"]))

\* Atropos has resolved the posteriors of three tissue classes
C7_Witness ==
    /\ iface = "Atropos" /\ pc = "Resolved"
    /\ inputs["save_posteriors"] = Def(TRUE)
    /\ inputs["number_of_tissue_classes"] = Def(3)
    /\ Len(Val(Val(outputs).posteriors)) = 3

\* N4BiasFieldCorrection is to save the bias field under a derived name
DerivedBias ==
    /\ iface = "N4BiasFieldCorrection"
    /\ inputs["save_bias"] = Def(TRUE)
    /\ ~isdefined(inputs["bias_image"])

\* the base name of the input image with _bias before its extension
BiasName ==
    IF Val(inputs["input_image"]) = F_structural THEN "structural_bias.nii"
    ELSE "T1_bias.nii.gz"

\* the output image named in the --output token
OutputName ==
    IF isdefined(inputs["output_image"]) THEN "out.nii"
    ELSE IF Val(inputs["input_image"]) = F_structural
    THEN "structural_corrected.nii"
    ELSE "T1_corrected.nii.gz"

\* C8: for N4BiasFieldCorrection with save_bias true and bias_image unset,
\* the bias file is named by the base name of the input image with _bias
\* before the extension: the --output token is [ output, bias ] with that
\* name, and the resolver reports bias_image as that name in the working
\* directory.
C8_DerivedBiasName ==
    (DerivedBias /\ PastCompilation) =>
        /\ isdefined(cmdline)
        /\ Val(cmdline)[4] = "--output [ " \o OutputName \o ", " \o BiasName \o " ]"
        /\ PastExecution =>
              /\ pc = "Resolved"
              /\ isdefined(Val(outputs).bias_image)
              /\ Render(Val(Val(outputs).bias_image)) = "/work/" \o BiasName

\* the bias image of an input image given with its directory has been
\* resolved
C8_Witness ==
    /\ DerivedBias /\ pc = "Resolved"
    /\ Val(inputs["input_image"]) = F_T1
    /\ Render(Val(Val(outputs).bias_image)) = "/work/T1_bias.nii.gz"

\* the glob-based outputs of JointFusion and the name format of each
GlobOutputs ==
    {<<"out_intensity_fusion", "out_intensity_fusion_name_format">>,
     <<"out_label_post_prob", "out_label_post_prob_name_format">>,
     <<"out_atlas_voting_weight", "out_atlas_voting_weight_name_format">>}

\* no file is named by the name format `t` filled with a number
NoFileOf(t) ==
    \A e \in fs : \A i \in 0..9 :
        Render(e.path) # "/work/" \o Render(Fill(t, i))

\* C9: JointFusion's resolution raises no error, and a glob-based output
\* whose name format matches no file is resolved to the empty list.
C9_GlobFailsSoftly ==
    (iface = "JointFusion" /\ PastExecution) =>
        /\ pc = "Resolved"
        /\ \A g \in GlobOutputs :
              (isdefined(inputs[g[2]]) /\ NoFileOf(Val(inputs[g[2]]))) =>
                  Val(outputs)[g[1]] = Def({})

\* JointFusion has resolved an intensity fusion output to the empty list
C9_Witness ==
    /\ iface = "JointFusion" /\ pc = "Resolved"
    /\ isdefined(inputs["out_intensity_fusion_name_format"])
    /\ Val(outputs)["out_intensity_fusion"] = Def({})

\* C10 (as amended): when BrainExtraction's run gets past validation, it
\* fails before the spawn if ANTSPATH is absent or empty in the interface's
\* environment, absent from the process environment, and antsRegistration
\* is not found; otherwise ANTSPATH is in the subprocess environment: the
\* interface's value if that is not empty, else the process's value, else
\* the directory of antsRegistration; and it is unchanged at the spawn.
C10_AntsPath ==
    [][(iface = "BrainExtraction") =>
          /\ (pc = "Validated" /\ pc' # "Validated") =>
                LET own == inputs["environ"]
                    ownSet == isdefined(own) /\ Val(own) # ""
                IN  IF ~ownSet /\ ~isdefined(os_env) /\ ~isdefined(which_ants)
                    THEN /\ pc' = "Failed" /\ err' = "RuntimeError: ANTSPATH"
                         /\ spawned' = 0 /\ rt_env' = Undef
                    ELSE /\ pc' = "Compiled"
                         /\ rt_env' = Def(IF ownSet THEN Val(own)
                                          ELSE IF isdefined(os_env) THEN Val(os_env)
                                          ELSE "/opt/ants/bin")
          /\ (spawned' > spawned) => (isdefined(rt_env) /\ rt_env' = rt_env)
      ]_vars

\* C10 (as stated): the same with an ANTSPATH that the interface's
\* environment defines as the empty string counted as defined
C10_AsStated ==
    [][(iface = "BrainExtraction" /\ pc = "Validated" /\ pc' # "Validated") =>
          LET own == inputs["environ"]
          IN  IF ~isdefined(own) /\ ~isdefined(os_env) /\ ~isdefined(which_ants)
              THEN pc' = "Failed" /\ spawned' = 0
              ELSE /\ pc' = "Compiled"
                   /\ rt_env' \in {own, os_env, Def("/opt/ants/bin")}
                   /\ isdefined(rt_env')
                   /\ (~isdefined(own) /\ ~isdefined(os_env)) =>
                         rt_env' = Def("/opt/ants/bin")
                   /\ (isdefined(own) \/ isdefined(os_env)) =>
                         rt_env' \in {own, os_env}
      ]_vars

\* ANTSPATH was inferred from the place of antsRegistration and the
\* subprocess has been spawned with it
C10_Witness ==
    /\ iface = "BrainExtraction" /\ pc = "Executed" /\ spawned = 1
    /\ os_env = Undef /\ which_ants = Def(AntsRegistration)
    /\ rt_env = Def("/opt/ants/bin")

\* C11 (as stated): whenever the output of BrainExtraction's tool holds
\* "we can't find", the run ends as an execution error, after the one spawn
\* of the invocation.
C11_AsStated ==
    (iface = "BrainExtraction" /\ spawned >= 1 /\ stdout # "clean"
        /\ stdout # "none") =>
        /\ pc = "Failed" /\ failedAt = "Compiled"
        /\ err = "ExecutionError"
        /\ spawned = 1

\* the output held "we can't find" inside a line and the run has ended with
\* the unbound `tool` of line 1020
C11_Witness ==
    /\ iface = "BrainExtraction" /\ spawned = 1
    /\ stdout = "line holds: we can't find"
    /\ pc = "Failed" /\ err = "UnboundLocalError"

\* C12: resolving the outputs leaves every file and every input field as
\* it was: the step from Executed changes neither the filesystem nor the
\* inputs, whether it ends in Resolved or in Failed.
C12_ResolutionReadsOnly ==
    [][(pc = "Executed" /\ pc' # "Executed") => (fs' = fs /\ inputs' = inputs)]_vars

\* JointFusion has resolved its outputs from files it found on disk
C12_Witness ==
    /\ iface = "JointFusion" /\ pc = "Resolved"
    /\ fs # {}
    /\ isdefined(inputs["out_intensity_fusion_name_format"])
    /\ Val(outputs)["out_intensity_fusion"] # Def({})

\* the files an execution of the tool has left
LeftByTool(files) == {e \in files : e.content \in {"posterior", "fused"}}

\* filesystems and values of self._out_bias_file a compilation may meet
SomeFilesystems == {{}, AtroposPriorFiles \cup fs'}
SomeOutBias == {Undef, Def(F_bias)}

\* the step compiles the command line, the preparation of _run_interface
\* having passed
RendersTokens ==
    /\ pc = "Validated" /\ pc' \in {"Compiled", "Failed"}
    /\ PreRun(iface, inputs, fs, os_env, which_ants).ok

\* C13 (as stated): what a compilation renders, tokens or error, is what the
\* field values alone render, on the filesystem without the files that
\* earlier executions of the tool have left and with nothing in
\* _out_bias_file.
C13_AsStated ==
    [][RendersTokens =>
          LET r == Cmdline(iface, inputs', fs' \ LeftByTool(fs'),
                           ParseInputs(iface, inputs', Undef), assigned')
          IN  /\ (pc' = "Compiled") = r.ok
              /\ r.ok => cmdline' = Def(r.val)
              /\ err' = r.err
      ]_vars

\* C13: the tokens a compilation renders are those the field values render
\* whatever _out_bias_file held before and whatever files are on disk, and
\* so is every error but the missing prior image of Atropos, which is
\* raised exactly when a prior image named by the fields is not on disk.
C13_TokensFromFields ==
    [][RendersTokens =>
          /\ \A F \in SomeFilesystems : \A ob \in SomeOutBias :
                LET r == Cmdline(iface, inputs', F,
                                 ParseInputs(iface, inputs', ob), assigned')
                IN  /\ (r.ok /\ pc' = "Compiled") => cmdline' = Def(r.val)
                    /\ (err' # "FileNotFoundError"
                        /\ r.err # "FileNotFoundError") =>
                            /\ (pc' = "Compiled") = r.ok
                            /\ err' = r.err
          /\ err' = "FileNotFoundError" =>
                /\ iface = "Atropos"
                /\ \E k \in DOMAIN Atropos_priors_paths(inputs') :
                      ~path_exists(fs', Atropos_priors_paths(inputs')[k])
      ]_vars

\* Atropos has compiled a prior-based initialization whose prior images are
\* the posteriors its own earlier execution wrote
C13_Witness ==
    /\ iface = "Atropos" /\ pc = "Compiled" /\ runs >= 1
    /\ inputs["initialization"] = Def("PriorProbabilityImages")
    /\ inputs["prior_image"] = Def(PosteriorDefault)
    /\ LeftByTool(fs) # {}

\* the instance asks for an initialization from prior images
PriorBased(inp) ==
    /\ isdefined(inp["initialization"])
    /\ Val(inp["initialization"]) \in {"PriorProbabilityImages", "PriorLabelImage"}
    /\ isdefined(inp["prior_image"])
    /\ isdefined(inp["number_of_tissue_classes"])

\* the prior images prior_image refers to: the pattern filled with every
\* class number, or the one file
ReferencedPriors(inp) ==
    IF Has02d(Val(inp["prior_image"]))
    THEN {Fill(Val(inp["prior_image"]), i) :
            i \in 1..Val(inp["number_of_tissue_classes"])}
    ELSE {Val(inp["prior_image"])}

\* a label image given as a pattern
LabelPattern(inp) ==
    Val(inp["initialization"]) = "PriorLabelImage" /\ Has02d(Val(inp["prior_image"]))

\* Atropos compiles a prior-based initialization
CompilesPriorBased ==
    /\ iface = "Atropos" /\ pc = "Validated" /\ pc' \in {"Compiled", "Failed"}
    /\ PriorBased(inputs)

\* C14 (as stated): a prior-based Atropos compiles only if every prior
\* image it refers to exists, and fails with a file-not-found error before
\* any spawn otherwise.
C14_AsStated ==
    [][CompilesPriorBased =>
          IF \A p \in ReferencedPriors(inputs) : path_exists(fs, p)
          THEN TRUE
          ELSE pc' = "Failed" /\ err' = "FileNotFoundError" /\ spawned' = 0
      ]_vars

\* C14: a prior-based Atropos compiles only if every prior image it refers
\* to exists; when one is missing the compilation fails before any spawn,
\* with a file-not-found error if prior_weighting is set and the image is
\* not a pattern given to PriorLabelImage, and with a value error in those
\* two cases, which are refused whether or not the files exist.
C14_PriorsMustExist ==
    [][CompilesPriorBased =>
          /\ pc' = "Compiled" =>
                \A p \in ReferencedPriors(inputs) : path_exists(fs, p)
          /\ (\E p \in ReferencedPriors(inputs) : ~path_exists(fs, p)) =>
                /\ pc' = "Failed" /\ failedAt' = "Validated" /\ spawned' = 0
                /\ err' = IF ~isdefined(inputs["prior_weighting"])
                          THEN "ValueError: prior_image and prior_weighting"
                          ELSE IF LabelPattern(inputs)
                          THEN "ValueError: patterns for prior_image"
                          ELSE "FileNotFoundError"
          /\ (LabelPattern(inputs) \/ ~isdefined(inputs["prior_weighting"])) =>
                pc' = "Failed" /\ err' # "FileNotFoundError"
      ]_vars

\* the compilation has failed for a missing prior image, the first of the
\* pattern being on disk and the second not
C14_Witness ==
    /\ iface = "Atropos" /\ pc = "Failed" /\ err = "FileNotFoundError"
    /\ failedAt = "Validated" /\ spawned = 0
    /\ PriorBased(inputs) /\ Has02d(Val(inputs["prior_image"]))
    /\ path_exists(fs, Fill(Val(inputs["prior_image"]), 1))
    /\ ~path_exists(fs, Fill(Val(inputs["prior_image"]), 2))

\* the exceptions that the _format_arg methods raise themselves
FormatArgErrors ==
    {"ValueError: number of centers", "ValueError: prior_image and prior_weighting",
     "ValueError: patterns for prior_image", "FileNotFoundError",
     "ValueError: number of segmentations"}

\* the text of the exception the invocation has failed with
RaisedMessage ==
    IF iface = "JointFusion" THEN JF_message(inputs)
    ELSE Atropos_message(inputs, err)

\* the text holds `a`
Carries(msg, a) == \E k \in 1..Len(msg) : msg[k] = a

\* the text names a field of the interface
NamesField(msg) == \E f \in Fields(iface) : Carries(msg, f)

\* the compilation has failed with an exception of _format_arg
FormatArgFailed ==
    pc = "Failed" /\ failedAt = "Validated" /\ err \in FormatArgErrors

\* C15 (as stated): the text of every error names a field of the interface,
\* and the text of a count-mismatch error, that of the centers of Atropos
\* and that of the segmentations of JointFusion, holds the count expected
\* and the count given.
C15_AsStated ==
    FormatArgFailed =>
        /\ NamesField(RaisedMessage)
        /\ err = "ValueError: number of centers" =>
              /\ Carries(RaisedMessage, Fmt_d(NClasses))
              /\ Carries(RaisedMessage, Fmt_d(Len(SuppliedCenters)))
        /\ err = "ValueError: number of segmentations" =>
              /\ Carries(RaisedMessage, Fmt_d(Len(Val(inputs["atlas_image"]))))
              /\ Carries(RaisedMessage,
                         Fmt_d(Len(Val(inputs["atlas_segmentation_image"]))))

\* Atropos has failed with the count-mismatch error, whose text holds
\* neither the number of classes nor the number of centers
C15_Witness ==
    /\ CountMismatch /\ KMeansWithCenters
    /\ ~Carries(RaisedMessage, Fmt_d(NClasses))
    /\ ~Carries(RaisedMessage, Fmt_d(Len(SuppliedCenters)))

\* the positional fields of LaplacianThickness in their declared order
DeclaredOrder ==
    <<"input_wm", "input_gm", "output_image", "smooth_param",
      "prior_thickness", "dT", "sulcus_prior", "tolerance">>

\* the fields of `order` that are rendered: the ones that hold a value, and
\* output_image, which is named from input_wm
RenderedFields(order) ==
    SelectSeq(order, LAMBDA f : isdefined(LT_format_arg(inputs, f)))

\* the sequence `s` turned round
Reversed(s) == [k \in 1..Len(s) |-> s[Len(s) + 1 - k]]

\* C16: the command line compiled is the one compiled from the same field
\* values assigned in no order or in the opposite order, and the arguments
\* of LaplacianThickness follow the command in the declared order of their
\* positions: input_wm, input_gm, output_image, smooth_param,
\* prior_thickness, dT, sulcus_prior, tolerance.
C16_SchemaOrder ==
    pc = "Compiled" =>
        /\ \A order \in {<<>>, Reversed(assigned)} :
              cmdline = Def(Cmdline(iface, inputs, fs, out_bias, order).val)
        /\ iface = "LaplacianThickness" =>
              /\ Len(Val(cmdline)) = 1 + Len(RenderedFields(DeclaredOrder))
              /\ \A k \in 1..Len(RenderedFields(DeclaredOrder)) :
                    Val(cmdline)[k + 1] =
                        Val(LT_format_arg(inputs, RenderedFields(DeclaredOrder)[k]))

\* LaplacianThickness has compiled with prior_thickness assigned before
\* smooth_param, and smooth_param comes first on the command line
C16_Witness ==
    /\ iface = "LaplacianThickness" /\ pc = "Compiled"
    /\ assigned = <<"prior_thickness", "smooth_param">>
    /\ Val(cmdline) = <<"LaplacianThickness", "white_matter.nii.gz",
                        "gray_matter.nii.gz", "white_matter_thickness.nii.gz",
                        "1.0", "500.0">>

\* the files of `files` inside the directory `dir`
Inside(files, dir) ==
    {e \in files : Len(e.path) > Len(dir) /\ SubSeq(e.path, 1, Len(dir)) = dir}

\* what run() on the instance of process p yields when it runs alone, in
\* its working directory and on the filesystem as the two processes found
\* it: the inputs after the preparation, the command line, the staged
\* files and the outputs
AloneInputs(p) ==
    IF par[p].cls = "BrainExtraction"
    THEN [par[p].given EXCEPT
            !["environ"] = Def(BE_ants_path(par[p].given, os_env, which_ants).val)]
    ELSE par[p].given

AloneCmdline(p) ==
    Def(Cmdline(par[p].cls, AloneInputs(p), fs0, Undef, <<>>).val)

AloneStaged(p) ==
    Inside(CT_stage(WorkDir(p), par[p].given, fs0),
           CT_priors_directory(WorkDir(p)))

AloneOutputs(p) ==
    IF par[p].cls = "BrainExtraction"
    THEN Def(BE_list_outputs(WorkDir(p), AloneInputs(p)).val)
    ELSE Def(CT_list_outputs(WorkDir(p), AloneInputs(p)).val)

\* C17: of two invocations that run at once in working directories of their
\* own, each has, however their steps interleave, the inputs, the command
\* line, the staged priors and the outputs it has when it runs alone.
C17_AsIfAlone ==
    \A p \in Procs :
        /\ par[p].pc \in {"Staged", "Compiled", "Executed", "Resolved"} =>
              /\ par[p].inputs = AloneInputs(p)
              /\ par[p].cls = "CorticalThickness" =>
                    Inside(fs, CT_priors_directory(WorkDir(p))) = AloneStaged(p)
        /\ par[p].pc \in {"Compiled", "Executed", "Resolved"} =>
              par[p].cmdline = AloneCmdline(p)
        /\ par[p].pc = "Resolved" => par[p].outputs = AloneOutputs(p)

\* two CorticalThickness invocations given the same priors in opposite
\* orders have both resolved their outputs
C17_Witness ==
    /\ \A p \in Procs : par[p].cls = "CorticalThickness" /\ par[p].pc = "Resolved"
    /\ par[1].inputs["segmentation_priors"] = Def(<<PriorA, PriorB>>)
    /\ par[2].inputs["segmentation_priors"] = Def(<<PriorB, PriorA>>)
    /\ Inside(fs, WorkDir(1)) # {} /\ Inside(fs, WorkDir(2)) # {}

\* the base name of `src` without its extension, the suffix, the extension
DerivedName(src, suffix) ==
    split_filename(src)[2] \o <<suffix>> \o split_filename(src)[3]

\* the output file name of the instance: the explicit value of the field if
\* it is set, the name derived from the source otherwise (put in the working
\* directory by the FSL interfaces)
ExpectedName ==
    CASE iface = "Atropos" ->
            IF isdefined(inputs["out_classified_image_name"])
            THEN Val(inputs["out_classified_image_name"])
            ELSE DerivedName(Val(inputs["intensity_images"])[1], "_labeled")
      [] iface = "LaplacianThickness" ->
            IF isdefined(inputs["output_image"]) THEN Val(inputs["output_image"])
            ELSE DerivedName(Val(inputs["input_wm"]), "_thickness")
      [] iface = "BET" ->
            IF isdefined(inputs["out_file"]) THEN Val(inputs["out_file"])
            ELSE Cwd \o <<"/">> \o DerivedName(Val(inputs["in_file"]), "_brain")
      [] iface = "MCFLIRT" ->
            IF isdefined(inputs["out_file"]) THEN Val(inputs["out_file"])
            ELSE Cwd \o <<"/">> \o DerivedName(Val(inputs["in_file"]), "_mcf")

\* the tokens that hand the interface's tool the output name `n`
OutputTokens(n) ==
    CASE iface = "Atropos" ->
            {"--output [" \o Render(n) \o "]"}
                \cup {"--output [" \o Render(n) \o "," \o Render(t) \o "]" :
                        t \in {PosteriorDefault, PosteriorPlain}}
      [] iface = "MCFLIRT" -> {"-out " \o Render(n)}
      [] OTHER -> {Render(n)}

\* the output of the interface that the name belongs to
NamedOutput ==
    CASE iface = "Atropos" -> "classified_image"
      [] iface = "LaplacianThickness" -> "output_image"
      [] OTHER -> "out_file"

NamesItsOutput ==
    /\ iface \in {"Atropos", "LaplacianThickness", "BET", "MCFLIRT"}
    /\ iface = "Atropos" => isdefined(inputs["output_posteriors_name_template"])

DeclaredExistingFile ==
    CASE iface = "Atropos" -> {"mask_image"}
      [] iface \in {"BET", "MCFLIRT"} -> {"in_file"}
      [] iface = "ApplyXfm" -> {"in_file", "reference", "in_matrix_file"}
      [] OTHER -> {}

\* the path is on disk
OnDisk(files, p) == p \in {F_structural, F_T1, F_mask, F_foo, F_ref} \/ path_exists(files, p)

DeclaredRequires ==
    CASE iface = "ApplyXfm" -> {<<"apply_xfm", "in_matrix_file">>}
      [] iface = "Atropos" ->
            {<<"initialization", "number_of_tissue_classes">>,
             <<"prior_probability_threshold", "prior_weighting">>}
      [] iface = "Mideface" -> {<<"force", "odir">>}
      [] iface = "LaplacianThickness" ->
            {<<"prior_thickness", "smooth_param">>, <<"dT", "prior_thickness">>,
             <<"sulcus_prior", "dT">>, <<"tolerance", "sulcus_prior">>}
      [] OTHER -> {}

\* a field is set whose companion is not
CompanionMissing ==
    \E d \in DeclaredRequires : isdefined(inputs[d[1]]) /\ ~isdefined(inputs[d[2]])

\* C20: an invocation whose instance has a field set and a required
\* companion of it unset never gets past validation: it fails there, with
\* no command line compiled and no subprocess spawned; with apply_xfm set
\* ApplyXfm gets past validation only when in_file, reference and
\* in_matrix_file are set.
C20_CompanionsRequired ==
    /\ PastValidation => ~CompanionMissing
    /\ (pc = "Failed" /\ CompanionMissing) =>
          /\ failedAt = "Unvalidated"
          /\ err \in {"MissingMandatory", "MutuallyExclusiveViolation",
                      "MissingCoRequirement"}
          /\ cmdline = Undef /\ spawned = 0
    /\ (PastValidation /\ iface = "ApplyXfm" /\ isdefined(inputs["apply_xfm"])) =>
          /\ isdefined(inputs["in_file"])
          /\ isdefined(inputs["reference"])
          /\ isdefined(inputs["in_matrix_file"])

\* run() has failed on a Mideface instance with force set and odir not,
\* for the companion alone
C20_Witness ==
    /\ iface = "Mideface" /\ pc = "Failed" /\ err = "MissingCoRequirement"
    /\ isdefined(inputs["force"]) /\ ~isdefined(inputs["odir"])

\* Atropos is to initialize from prior images
PriorInitialization ==
    /\ iface = "Atropos"
    /\ inputs["initialization"] \in {Def("PriorProbabilityImages"),
                                     Def("PriorLabelImage")}

\* the initialization token of a prior-based initialization: the class
\* count, the prior image as it was given, the weighting and, for
\* PriorProbabilityImages with a threshold set, the threshold
PriorToken ==
    "--initialization " \o Val(inputs["initialization"]) \o "["
        \o ToString(Val(inputs["number_of_tissue_classes"])) \o ","
        \o Render(Val(inputs["prior_image"])) \o ","
        \o ToString(Val(inputs["prior_weighting"]))
        \o (IF inputs["initialization"] = Def("PriorProbabilityImages")
               /\ isdefined(inputs["prior_probability_threshold"])
            THEN "," \o ToString(Val(inputs["prior_probability_threshold"]))
            ELSE "")
        \o "]"

\* C21: the compilation of an Atropos instance with initialization
\* PriorProbabilityImages or PriorLabelImage fails with a value error when
\* prior_image or prior_weighting is unset, and whenever PriorLabelImage is
\* given a prior_image that holds %02d; when it yields a command line both
\* fields are set and the initialization token is
\* <init>[N,prior_image,prior_weighting], with prior_probability_threshold as
\* a fourth element for PriorProbabilityImages when it is set, and never for
\* PriorLabelImage.
C21_PriorInitialization ==
    (PriorInitialization /\ PastCompilation) =>
        /\ (~isdefined(inputs["prior_image"])
            \/ ~isdefined(inputs["prior_weighting"])) =>
              /\ pc = "Failed" /\ failedAt = "Validated" /\ cmdline = Undef
              /\ err = "ValueError: prior_image and prior_weighting"
        /\ (inputs["initialization"] = Def("PriorLabelImage")
              /\ isdefined(inputs["prior_image"])
              /\ Has02d(Val(inputs["prior_image"]))) =>
              /\ pc = "Failed" /\ failedAt = "Validated" /\ cmdline = Undef
              /\ err \in {"ValueError: prior_image and prior_weighting",
                          "ValueError: patterns for prior_image"}
        /\ isdefined(cmdline) =>
              /\ isdefined(inputs["prior_image"])
              /\ isdefined(inputs["prior_weighting"])
              /\ Val(cmdline)[3] = PriorToken

\* PriorLabelImage has compiled with a threshold set, which its token does
\* not hold
C21_Witness ==
    /\ PriorInitialization /\ pc = "Compiled"
    /\ inputs["initialization"] = Def("PriorLabelImage")
    /\ isdefined(inputs["prior_probability_threshold"])
    /\ Val(cmdline)[3] = "--initialization PriorLabelImage[2,segmentation0.nii.gz,1]"

\* the outputs BrainExtraction reports besides the mask and the brain
TemporaryReported(o) ==
    {n \in DOMAIN o : n \notin {"BrainExtractionMask", "BrainExtractionBrain"}
                        /\ isdefined(o[n])}

\* the temporary files are asked for
KeepsTemporaryFiles ==
    isdefined(inputs["keep_temporary_files"]) /\ Val(inputs["keep_temporary_files"]) # 0

\* the two affine transforms among the temporary outputs
AffineOutputs == {"BrainExtractionInitialAffine", "BrainExtractionPrior0GenericAffine"}

\* <working directory>/<out_prefix><name>.<image_suffix>
SuffixedPath(n) ==
    "/work/" \o Render(Val(inputs["out_prefix"])) \o n \o "."
        \o Render(Val(inputs["image_suffix"]))

\* C22 (as stated): BrainExtraction's resolution always reports the mask and
\* the brain, and the sixteen temporary outputs exactly when
\* keep_temporary_files is set and nonzero, each output at
\* <working directory>/<out_prefix><name>.<image_suffix>.
C22_AsStated ==
    (iface = "BrainExtraction" /\ PastExecution) =>
        /\ pc = "Resolved"
        /\ isdefined(Val(outputs)["BrainExtractionMask"])
        /\ isdefined(Val(outputs)["BrainExtractionBrain"])
        /\ Cardinality(TemporaryReported(Val(outputs)))
              = IF KeepsTemporaryFiles THEN 16 ELSE 0
        /\ \A n \in DOMAIN Val(outputs) :
              isdefined(Val(outputs)[n]) =>
                  Render(Val(Val(outputs)[n])) = SuffixedPath(n)

\* C22: when out_prefix and image_suffix hold values, BrainExtraction's
\* resolution reports the mask and the brain, and the sixteen temporary
\* outputs exactly when keep_temporary_files is set and nonzero; each output
\* is at <working directory>/<out_prefix><name>.<image_suffix>, but the two
\* affine transforms, which are at <working directory>/<out_prefix><name>.mat
\* whatever image_suffix is.  With out_prefix or image_suffix undefined the
\* resolution fails.
C22_TemporaryOutputs ==
    (iface = "BrainExtraction" /\ PastExecution) =>
        /\ pc = "Resolved" <=>
              (isdefined(inputs["out_prefix"]) /\ isdefined(inputs["image_suffix"]))
        /\ pc = "Resolved" =>
              /\ isdefined(Val(outputs)["BrainExtractionMask"])
              /\ isdefined(Val(outputs)["BrainExtractionBrain"])
              /\ Cardinality(TemporaryReported(Val(outputs)))
                    = IF KeepsTemporaryFiles THEN 16 ELSE 0
              /\ \A n \in DOMAIN Val(outputs) :
                    isdefined(Val(outputs)[n]) =>
                        Render(Val(Val(outputs)[n])) =
                            IF n \in AffineOutputs
                            THEN "/work/" \o Render(Val(inputs["out_prefix"]))
                                     \o n \o ".mat"
                            ELSE SuffixedPath(n)

\* BrainExtraction has resolved its sixteen temporary outputs, the initial
\* affine transform among them
C22_Witness ==
    /\ iface = "BrainExtraction" /\ pc = "Resolved"
    /\ inputs["keep_temporary_files"] = Def(1)
    /\ Cardinality(TemporaryReported(Val(outputs))) = 16
    /\ Render(Val(Val(outputs)["BrainExtractionInitialAffine"]))
          = "/work/highres001_BrainExtractionInitialAffine.mat"
    /\ Render(Val(Val(outputs)["N4Truncated0"])) = "/work/highres001_N4Truncated0.nii.gz"

\* the priors of the instance, and the pattern that names their staged
\* copies: the extension is that of the first prior
Priors == Val(inputs["segmentation_priors"])
StagedPattern ==
    <<"nipype_priors", "/", "BrainSegmentationPrior", "%02d">>
        \o split_filename(Priors[1])[3]

\* C23: when CorticalThickness has compiled its command line, and before
\* the subprocess is spawned, the -p option holds the pattern
\* nipype_priors/BrainSegmentationPrior%02d<ext>; for every i up to the
\* number of priors the file that the pattern names for i is in the working
\* directory and holds what the i-th prior of the list holds; and staging
\* the priors once more changes nothing.
C23_PriorsStaged ==
    (iface = "CorticalThickness" /\ pc = "Compiled") =>
        /\ spawned = 0
        /\ \E k \in 1..Len(Val(cmdline)) :
              Val(cmdline)[k] = "-p " \o Render(StagedPattern)
        /\ \A i \in 1..Len(Priors) :
              /\ path_exists(fs, Fill(StagedPattern, i))
              /\ content(fs, abspath(Fill(StagedPattern, i)))
                    = content(fs, abspath(Priors[i]))
        /\ CT_stage(Cwd, inputs, fs) = fs

\* two priors given in the order B, A have been staged: the first staged
\* file holds what B holds
C23_Witness ==
    /\ iface = "CorticalThickness" /\ pc = "Compiled" /\ spawned = 0
    /\ Priors = <<PriorB, PriorA>>
    /\ content(fs, <<"/", "work", "/", "nipype_priors", "/",
                     "BrainSegmentationPrior", "01", ".nii", ".gz">>) = "B"
    /\ content(fs, <<"/", "work", "/", "nipype_priors", "/",
                     "BrainSegmentationPrior", "02", ".nii", ".gz">>) = "A"

\* the names an -o option of JointFusion may hold, and every -o option that
\* can be written with them
OutputNames ==
    {Render(F_label), Render(IntensityFormat), Render(PosteriorFormat),
     Render(VotingFormat)}
OutputOptions ==
    {"-o " \o n : n \in OutputNames}
        \cup {"-o [" \o Join(s, ", ") \o "]" :
                s \in UNION {[1..n -> OutputNames] : n \in 2..4}}

\* the name formats that are set, in the order intensity, label posterior,
\* voting weight, up to the first one that is not set
FormatRun ==
    LET f == <<inputs["out_intensity_fusion_name_format"],
               inputs["out_label_post_prob_name_format"],
               inputs["out_atlas_voting_weight_name_format"]>>
        n == CHOOSE m \in 0..3 :
                /\ \A k \in 1..m : isdefined(f[k])
                /\ m < 3 => ~isdefined(f[m + 1])
    IN  [k \in 1..n |-> Render(Val(f[k]))]

\* C24: a command line of JointFusion holds at most one -o option.  With
\* out_label_fusion set it holds the label fusion name and after it the name
\* formats that are set, in the order intensity, label posterior, voting
\* weight and up to the first that is not set, in brackets when there is
\* more than one element; with out_label_fusion unset and the intensity
\* format set it holds the intensity format alone; with neither set there
\* is no -o option.
C24_SingleOutputOption ==
    (iface = "JointFusion" /\ isdefined(cmdline)) =>
        LET opts == {k \in 1..Len(Val(cmdline)) : Val(cmdline)[k] \in OutputOptions}
            label == inputs["out_label_fusion"]
            expected ==
                IF isdefined(label)
                THEN IF FormatRun = <<>> THEN {"-o " \o Render(Val(label))}
                     ELSE {"-o [" \o Render(Val(label)) \o ", "
                               \o Join(FormatRun, ", ") \o "]"}
                ELSE IF isdefined(inputs["out_intensity_fusion_name_format"])
                THEN {"-o " \o Render(Val(inputs["out_intensity_fusion_name_format"]))}
                ELSE {}
        IN  /\ Cardinality(opts) <= 1
            /\ {Val(cmdline)[k] : k \in opts} = expected

\* JointFusion has compiled with out_label_fusion unset and the intensity
\* format set
C24_Witness ==
    /\ iface = "JointFusion" /\ pc = "Compiled"
    /\ ~isdefined(inputs["out_label_fusion"])
    /\ \E k \in 1..Len(Val(cmdline)) :
          Val(cmdline)[k] = "-o ants_joint_fusion_intensity_%d.nii.gz"

\* the -g token of one atlas set of two images, and the -l token of one
\* segmentation
GToken(set) == "-g ['" \o Render(set[1]) \o "', '" \o Render(set[2]) \o "']"
LToken(seg) == "-l " \o Render(seg)

\* the tokens of a list of one or two elements, in list order, as they
\* stand on the command line
InListOrder(T(_), l) ==
    IF Len(l) = 1 THEN T(l[1]) ELSE T(l[1]) \o " " \o T(l[2])

\* C25: the compilation of JointFusion fails with the value error of the
\* segmentations exactly when atlas_segmentation_image and atlas_image
\* differ in length; when they are equal in length the command line holds
\* one -g token for every atlas set and one -l token for every
\* segmentation, each group in the order of its list.
C25_SegmentationsMatchAtlases ==
    (iface = "JointFusion" /\ PastCompilation) =>
        LET atlases == Val(inputs["atlas_image"])
            segs == Val(inputs["atlas_segmentation_image"])
        IN  /\ (Len(segs) # Len(atlases)) <=>
                  (pc = "Failed" /\ failedAt = "Validated"
                      /\ err = "ValueError: number of segmentations")
            /\ (Len(segs) # Len(atlases)) => (cmdline = Undef /\ spawned = 0)
            /\ (Len(segs) = Len(atlases)) =>
                  /\ isdefined(cmdline)
                  /\ Val(cmdline)[3] = InListOrder(GToken, atlases)
                  /\ Val(cmdline)[4] = InListOrder(LToken, segs)

\* two atlas sets and two segmentations have been compiled
C25_Witness ==
    /\ iface = "JointFusion" /\ pc = "Compiled"
    /\ Val(cmdline)[3] = "-g ['rc1s1.nii', 'rc1s2.nii'] -g ['rc2s1.nii', 'rc2s2.nii']"
    /\ Val(cmdline)[4] = "-l segmentation0.nii.gz -l segmentation1.nii.gz"

\* the field values ask for a bias image
BiasRequested ==
    inputs["save_bias"] = Def(TRUE) \/ isdefined(inputs["bias_image"])

\* C26 (as stated): whatever assignments, compilations and resolutions went
\* before, what _list_outputs returns for N4BiasFieldCorrection holds a
\* bias_image exactly when save_bias is true or bias_image is set, and it is
\* the bias file named by the field values, in the working directory.
C26_AsStated ==
    (iface = "N4BiasFieldCorrection" /\ isdefined(outputs)) =>
        /\ isdefined(Val(outputs).bias_image) <=> BiasRequested
        /\ BiasRequested =>
              Render(Val(Val(outputs).bias_image)) =
                  "/work/" \o (IF isdefined(inputs["bias_image"])
                               THEN Render(Val(inputs["bias_image"]))
                               ELSE BiasName)

\* _list_outputs has returned a bias_image on an instance whose fields ask
\* for none: the name is the one an earlier compilation left
C26_Witness ==
    /\ iface = "N4BiasFieldCorrection" /\ isdefined(outputs)
    /\ inputs["save_bias"] = Def(FALSE) /\ ~isdefined(inputs["bias_image"])
    /\ isdefined(Val(outputs).bias_image)

\* the --output token of the compiled command line names a posterior template
TemplateInOutput ==
    \E t \in Domain("Atropos", "output_posteriors_name_template") :
        Carries(Val(cmdline),
                "--output [" \o Render(Atropos_gen_filename(inputs))
                    \o "," \o Render(t) \o "]")

\* C27 (as stated): for Atropos with save_posteriors unset, true or false,
\* the --output token of the command line carries the posterior name
\* template exactly when the resolved outputs hold posteriors.
C27_AsStated ==
    (iface = "Atropos" /\ pc = "Resolved") =>
        (TemplateInOutput <=> isdefined(Val(outputs).posteriors))

\* a run with save_posteriors false: the tool was handed the template, the
\* outputs hold no posteriors
C27_Witness ==
    /\ iface = "Atropos" /\ pc = "Resolved"
    /\ inputs["save_posteriors"] = Def(FALSE)
    /\ TemplateInOutput
    /\ ~isdefined(Val(outputs).posteriors)

\* two single-file outputs of CorticalThickness resolved to one path
SamePath(a, b) == Val(outputs)[a] = Val(outputs)[b]

\* C28 (as stated): the twelve single-file outputs of CorticalThickness
\* resolve to twelve different paths, whatever out_prefix and image_suffix
\* are.
C28_AsStated ==
    (iface = "CorticalThickness" /\ pc = "Resolved") =>
        \A a, b \in CT_SingleOutputs : a # b => ~SamePath(a, b)

\* the outputs are resolved, and the thickness map normalised to the
\* template has the path of the thickness map
C28_Witness ==
    /\ iface = "CorticalThickness" /\ pc = "Resolved"
    /\ isdefined(Val(outputs)["CorticalThickness"])
    /\ SamePath("CorticalThicknessNormedToTemplate", "CorticalThickness")

\* no other two single-file outputs share a path
C28_OnlyCollision ==
    (iface = "CorticalThickness" /\ pc = "Resolved") =>
        \A a, b \in CT_SingleOutputs :
            (a # b /\ SamePath(a, b)) =>
                {a, b} = {"CorticalThicknessNormedToTemplate", "CorticalThickness"}

\* C29 (as stated): for a Mideface invocation that has passed validation,
\* compilation and execution, _list_outputs returns without raising, the
\* keys of what it returns are those of the output spec (outfile), and the
\* inputs it reads are declared by the input spec.
C29_AsStated ==
    (iface = "Mideface" /\ PastExecution) =>
        /\ pc = "Resolved"
        /\ DOMAIN Val(outputs) = {"outfile"}
        /\ Mideface_declares("dicom_info_file")

\* a Mideface run whose tool has exited with 0 has ended in _list_outputs,
\* with the error of reading an attribute the inputs do not have
C29_Witness ==
    /\ iface = "Mideface" /\ pc = "Failed" /\ failedAt = "Executed"
    /\ spawned = 1
    /\ err = "AttributeError"
    /\ outputs = Undef

\* the BrainSegmentationPrior files in nipype_priors of the working directory
StagedFiles ==
    LET d == CT_priors_directory(Cwd) \o <<"/">>
    IN  {e.path : e \in {x \in fs : /\ Len(x.path) > Len(d) + 1
                                    /\ SubSeq(x.path, 1, Len(d)) = d
                                    /\ x.path[Len(d) + 1] = "BrainSegmentationPrior"}}

\* the targets of the priors of the current invocation
CurrentTargets ==
    {CT_target(Cwd, inputs, i) :
        i \in 1..Len(Val(inputs["segmentation_priors"]))}

\* C30 (as stated): once CorticalThickness has staged the priors of an
\* invocation, the BrainSegmentationPrior files in nipype_priors are the
\* staged copies of that invocation's priors and no others, whatever an
\* earlier invocation has staged in the same working directory.
C30_AsStated ==
    (iface = "CorticalThickness" /\ pc = "Compiled") =>
        StagedFiles = CurrentTargets

\* a second invocation with two priors has staged them where an earlier
\* one had staged three: the third file of the earlier one is still there
C30_Witness ==
    /\ iface = "CorticalThickness" /\ pc = "Compiled" /\ runs = 1
    /\ Len(Val(inputs["segmentation_priors"])) = 2
    /\ CurrentTargets \subseteq StagedFiles
    /\ <<"/", "work", "/", "nipype_priors", "/",
         "BrainSegmentationPrior", "03", ".nii", ".gz">> \in StagedFiles

\* a second invocation whose only prior ends in .nii has staged it: the
\* .nii.gz files of the earlier invocation are still there
C30_OtherExtension ==
    /\ iface = "CorticalThickness" /\ pc = "Compiled" /\ runs = 1
    /\ inputs["segmentation_priors"] = Def(<<PriorC>>)
    /\ \E p \in StagedFiles : p[Len(p)] = ".gz"

\* within the first invocation in a working directory the staged files are
\* the current ones
C30_FirstInvocation ==
    (iface = "CorticalThickness" /\ pc = "Compiled" /\ runs = 0) =>
        StagedFiles = CurrentTargets

=============================================================================
